---- MODULE Spec2Model ----
(***************************************************************************)
(* EcoReport: the report submission pipeline (three handleSubmit           *)
(* implementations), the data service they call (object storage, the       *)
(* reports table with its constraints and row-level security), and the     *)
(* comment list of the report detail view with its change subscription.    *)
(***************************************************************************)
EXTENDS Naturals, Integers, Sequences, FiniteSets, TLC

(* ------------------------------------------------------------------ *)
(* Bounds of the model                                                 *)
(* ------------------------------------------------------------------ *)
MaxInv == 2
MaxTime == 1

(* ------------------------------------------------------------------ *)
(* Values                                                              *)
(* ------------------------------------------------------------------ *)
Views == {"v1", "v2"}
Users == {"u1", "u2"}
\* The devices whose session changes while the model runs; the other device
\* stays signed in.
SessionChanges == {"v1"}
Lanes == {"a", "b"}
Slots == Views \X Lanes
NoUser == "none"
NoLoc == <<>>
SomeLoc == <<48, 2>>
Null == "null"

\* The three submit implementations of the repository.
VCreate == "CreateReportScreen"
VLegacy == "ReportScreen"
VMain == "main/ReportScreen"
Variants == {VCreate, VLegacy, VMain}

\* The messages of the data service (its own texts; one per cause).
MsgNetwork == "Network request failed"
MsgExists == "The resource already exists"
MsgPolicy == "new row violates row-level security policy"
MsgNotNull == "null value violates not-null constraint"

VARIABLES
    identity,     \* per view (device): the identity provider's current user
    now,          \* the clock, in milliseconds, as last read
    variant,      \* which submit implementation the views run
    form,         \* per view: the report form (image, location, category)
    loading,      \* per view: the loading flag
    shown,        \* per view: whether the screen with the form is mounted
    storage,      \* object store: the set of stored object paths
    reports,      \* the reports table: a set of rows
    started,      \* number of submit invocations so far
    inv,          \* per view and lane: the running or the last submit invocation
    cdb,          \* the comments table: a set of rows
    changes,      \* number of changes of the comments table so far
    mounted,      \* whether a report detail view is open
    inst,         \* the number of the detail view instance (0: none yet)
    viewId,       \* route.params.id of the detail view
    comments,     \* the detail view's local comment list
    report,       \* the detail view's report
    error,        \* the detail view's error text
    lastOrigin,   \* what started the fetch that set the local list last
    lastFetch,    \* (for the record) the query that fetch made: of which report, after
                  \* how many changes of the table, and whether it repeated the
                  \* query of the event refetch before it
    subs,         \* the change subscriptions opened so far
    tasks,        \* the fetchComments calls in flight
    rtasks,       \* the fetchReport calls in flight
    newComment,   \* the detail view's draft text
    posting,      \* the detail view's loading flag
    adds,         \* the handleAddComment calls in flight
    lastAdd,      \* what came of the last press of Post
    homeReports,      \* HomeScreen: the fetched reports (its state `reports`)
    filteredReports,  \* HomeScreen: the list the feed shows
    searchQuery,      \* HomeScreen: the text of the search bar
    selectedCategory, \* HomeScreen: the label chosen in the menu, or Null
    homeLoading,      \* HomeScreen: the loading flag
    homeError,        \* HomeScreen: the error text
    refreshing,       \* HomeScreen: the pull-to-refresh flag
    filterPending,    \* HomeScreen: the filter effect is due after this render
    fetches,          \* the fetchReports calls in flight
    feedChanges,      \* number of fetchReports calls started and of changes others
                      \* made to the reports table
    homeEvent,        \* (for the record) "focus" when the last thing that happened
                      \* to HomeScreen was a focus event
    platform,         \* Platform.OS of the device
    camPerm,          \* the operating system's camera permission for the app
    pick,             \* the running or the last image picker call of the form
    pickError,        \* the form screen's error text, as the picker sets it
    authUser,         \* AuthProvider: its state `user`
    accounts,         \* the identity service: its accounts
    profiles,         \* the profiles table
    session,          \* the identity client's session: the id of its user, or Null
    authEvents,       \* auth state changes the listener has not handled yet
    call,             \* the running or the last signIn / signUp call
    authCalls,        \* number of signIn, signUp and signOut calls made so far
    authLoading,      \* AuthProvider: its state `loading`
    boot,             \* AuthProvider: the session check of its effect
    listener,         \* AuthProvider: the running callback of onAuthStateChange
    lastEvent         \* (for the record) the session of the last auth state
                      \* change handed to the listener, "none" before the first

submitVars ==
    <<identity, started, now, variant, form, loading, shown, storage, reports, inv>>

addVars == <<newComment, posting, adds, lastAdd>>

commentVars ==
    <<cdb, changes, mounted, inst, viewId, comments, report, error,
      lastOrigin, lastFetch, subs, tasks, rtasks, addVars>>

feedVars ==
    <<homeReports, filteredReports, searchQuery, selectedCategory, homeLoading,
      homeError, refreshing, filterPending, fetches, feedChanges, homeEvent>>

\* The state of the screens other than the report form and the detail view.
pickVars == <<platform, camPerm, pick, pickError>>

authVars ==
    <<authUser, accounts, profiles, session, authEvents, call, authCalls,
      authLoading, boot, listener, lastEvent>>

\* What signIn and signUp leave alone of the provider.
besideCall == <<authLoading, boot, listener, lastEvent>>

otherVars == <<feedVars, pickVars, authVars>>

\* What the actions of one of these screens leave alone of the others.
besideFeed == <<pickVars, authVars>>

besidePick == <<feedVars, authVars>>

besideAuth == <<feedVars, pickVars>>

vars == <<submitVars, commentVars, shown, otherVars>>

(* ------------------------------------------------------------------ *)
(* The form and the guards of handleSubmit                             *)
(* ------------------------------------------------------------------ *)
InitialCategory(vt) == IF vt = VLegacy THEN "" ELSE "pollution"

InitialForm(vt) == [image |-> FALSE, location |-> NoLoc, category |-> InitialCategory(vt)]

\* getCurrentLocation is called on mount (CreateReportScreen,
\* main/ReportScreen) or after an image was set (ReportScreen).
LocationRequested(vt, f) == vt = VLegacy => f.image

\* The first check of handleSubmit: what the form must hold.
FormValid(vt, f) ==
    CASE vt = VCreate -> f.image
      [] vt = VLegacy -> f.image /\ f.location # NoLoc /\ f.category # ""
      [] vt = VMain -> f.image /\ f.location # NoLoc

\* The submit button's disabled attribute, negated.
ButtonEnabled(vt, f, ld) ==
    CASE vt = VCreate -> ~(ld \/ ~f.image)
      [] vt = VLegacy -> ~ld
      [] vt = VMain -> ~(ld \/ ~f.image \/ f.location = NoLoc)

ValidationText(vt) ==
    CASE vt = VCreate -> <<"Error", "Please select an image">>
      [] vt = VLegacy -> <<"Error", "Please provide an image, location, and category">>
      [] vt = VMain -> <<"Please provide an image and location">>

(* ------------------------------------------------------------------ *)
(* The pipeline's values                                               *)
(* ------------------------------------------------------------------ *)
NoPath == <<>>
NoRef == [kind |-> "none", path |-> NoPath]

\* The object path of an upload.
ObjectPath(vt, uid, t) == IF vt = VCreate THEN <<uid, t>> ELSE <<"reports", t>>

PublicUrl(path) == [kind |-> "public", path |-> path]
SignedUrl(path) == [kind |-> "signed", path |-> path]
PathRef(path) == [kind |-> "path", path |-> path]

\* What createSignedUrl's result yields when read as { publicUrl }: the
\* signed URL, or nothing when the field is absent from the response.
SignedUrlResults(path) == {SignedUrl(path), NoRef}

\* The record handed to insert.
ReportData(vt, r) ==
    CASE vt = VCreate ->
            [user_id |-> r.user, image_url |-> r.ref,
             location |-> IF r.loc # NoLoc THEN r.loc ELSE <<0, 0>>,
             category |-> r.category]
      [] vt = VLegacy ->
            [user_id |-> r.user, image_url |-> r.ref,
             location |-> r.loc, category |-> r.category]
      [] vt = VMain ->
            [user_id |-> Null, image_url |-> r.ref,
             location |-> r.loc, category |-> r.category]

(* ------------------------------------------------------------------ *)
(* The data service                                                    *)
(* ------------------------------------------------------------------ *)
\* storage.objects insert policy: auth.role() = 'authenticated'.
StorageInsertAllowed(uid) == uid # NoUser

\* upload with upsert: false: Null on success, else the error's message.
UploadError(path, uid, net, store) ==
    IF net THEN MsgNetwork
    ELSE IF ~StorageInsertAllowed(uid) THEN MsgPolicy
    ELSE IF path \in store THEN MsgExists
    ELSE Null

\* reports: user_id, image_url and location are NOT NULL.
ReportsNotNull(row) ==
    /\ row.user_id # Null
    /\ row.image_url # NoRef
    /\ row.location # NoLoc

\* Mutant: any signed-in or signed-out session may insert any row.
ReportsInsertPolicyOpen(row, uid) == TRUE

\* reports insert policy: with check (auth.uid() = user_id).
ReportsInsertPolicy(row, uid) == uid # NoUser /\ row.user_id = uid

InsertError(row, uid, net) ==
    IF net THEN MsgNetwork
    ELSE IF ~ReportsNotNull(row) THEN MsgNotNull
    ELSE IF ~ReportsInsertPolicy(row, uid) THEN MsgPolicy
    ELSE Null

(* ------------------------------------------------------------------ *)
(* What the caller is shown                                            *)
(* ------------------------------------------------------------------ *)
ErrText(m) == IF m = "" THEN "Failed to submit report" ELSE m

\* The text of the failure of a stage; m is the service's message.
FailureText(vt, stage, m) ==
    CASE vt = VMain -> <<ErrText(m)>>
      [] vt = VCreate /\ stage = "auth" ->
            <<"Error", "Failed to submit report", "User not authenticated",
              IF m = "" THEN "Unknown error" ELSE m>>
      [] vt = VLegacy /\ stage = "auth" ->
            <<"Error", "Failed to submit report", "You must be logged in to submit a report">>
      [] vt # VMain /\ stage = "upload" ->
            <<"Error", "Failed to submit report", "Failed to process image",
              "Failed to upload image", m>>
      [] vt # VMain /\ stage = "url" ->
            <<"Error", "Failed to submit report", "Failed to process image",
              "Failed to get public URL", m>>
      [] vt # VMain /\ stage = "insert" ->
            <<"Error", "Failed to submit report", "Failed to process image",
              "Failed to save report", m>>

SuccessText(vt) ==
    IF vt = VMain THEN <<>> ELSE <<"Success", "Report submitted successfully">>

(* ------------------------------------------------------------------ *)
(* Invocations                                                         *)
(* ------------------------------------------------------------------ *)
Ev(step, what) == [step |-> step, ev |-> what]

\* How a step resolved, from the service's answer.
Resolved(step, ok) == Ev(step, IF ok THEN "ok" ELSE "fail")

FirstStep(vt) == IF vt = VMain THEN "fetch" ELSE "auth"

\* No invocation yet. user, path, ref, loc and category are handleSubmit's
\* locals; upErr and insErr are the service's answers, upUid and insUid the
\* session's user when the service answered, stored and rowed whether the
\* service stored the object and the row; log lists the steps' starts and
\* resolutions.
Idle(vt) ==
    [variant |-> vt, pc |-> "idle", user |-> NoUser,
     path |-> NoPath, ref |-> NoRef, loc |-> NoLoc, category |-> "",
     hadImage |-> FALSE, failedAt |-> "none", msg |-> <<>>, log |-> <<>>,
     upErr |-> "unset", insErr |-> "unset", upUid |-> NoUser, insUid |-> NoUser,
     stored |-> FALSE, rowed |-> FALSE]

\* handleSubmit's closure: the form as it is when the button is pressed.
NewInvocation(vt, f) ==
    [Idle(vt) EXCEPT !.pc = FirstStep(vt), !.loc = f.location,
                     !.category = f.category, !.hadImage = f.image,
                     !.log = <<Ev(FirstStep(vt), "start")>>]

Rejected(vt, f) ==
    [Idle(vt) EXCEPT !.pc = "done", !.loc = f.location,
                     !.category = f.category, !.hadImage = f.image,
                     !.failedAt = "validate", !.msg = ValidationText(vt)]

\* The catch blocks: the failure of a stage is shown, the invocation ends.
Fail(r, stage, m) ==
    [r EXCEPT !.pc = "done", !.failedAt = stage,
              !.msg = FailureText(r.variant, stage, m)]

\* The end of the try block.
Succeed(r) == [r EXCEPT !.pc = "done", !.msg = SuccessText(r.variant)]

Free(r) == r.pc \in {"idle", "done"}

InFlight(r) == ~Free(r)

(* ------------------------------------------------------------------ *)
(* Initial state                                                       *)
(* ------------------------------------------------------------------ *)
SubmitIdle(vt) ==
    /\ identity = [v \in Views |-> IF v = "v1" THEN "u1" ELSE "u2"]
    /\ started = 0
    /\ now = 0
    /\ variant = vt
    /\ form = [v \in Views |-> InitialForm(vt)]
    /\ loading = [v \in Views |-> FALSE]
    /\ shown = [v \in Views |-> TRUE]
    /\ storage = {}
    /\ reports = {}
    /\ inv = [s \in Slots |-> Idle(vt)]

\* HomeScreen as it is mounted: nothing fetched, no filter.
FeedIdle ==
    /\ homeReports = <<>>
    /\ filteredReports = <<>>
    /\ searchQuery = <<>>
    /\ selectedCategory = Null
    /\ homeLoading = FALSE
    /\ homeError = Null
    /\ refreshing = FALSE
    /\ filterPending = FALSE
    /\ fetches = <<>>
    /\ feedChanges = 0
    /\ homeEvent = "none"

\* What an image picker call shows when it ends: nothing, an error text
\* (setError) or an alert.
Shows(kind, text) == [kind |-> kind, text |-> text]

ShowsNothing == Shows("none", "")

\* No image picker call yet.  type is the button pressed; asked, confirmed,
\* surfaced and denied tell whether the call asked for the camera
\* permission, was told that it is granted, called launchCamera or
\* launchImageLibrary, and met a denied permission; result is what the
\* picker returned and outcome what the call showed.
NoPick ==
    [pc |-> "idle", type |-> "none", asked |-> FALSE, confirmed |-> FALSE,
     surfaced |-> FALSE, denied |-> FALSE, result |-> "none",
     outcome |-> ShowsNothing]

\* The form screen on device os, before any image picker call.
PickIdle(os) ==
    /\ platform = os
    /\ camPerm = "ask"
    /\ pick = NoPick
    /\ pickError = Null

\* No signIn or signUp call has been made.
NoCall ==
    [op |-> "none", pc |-> "idle", email |-> Null, password |-> Null,
     username |-> Null, uid |-> Null, log |-> <<>>, accepted |-> FALSE,
     rejected |-> Null, outcome |-> [kind |-> "none"]]

\* AuthProvider's user state when it is null.
NoAuthUser == [id |-> Null, email |-> Null, username |-> Null]

\* The accounts and profiles there are at the start: one confirmed account
\* with its profile.
SampleAccounts ==
    {[id |-> "u1", email |-> "ann@x", password |-> "pw1", confirmed |-> TRUE]}

SampleProfiles == {[id |-> "u1", username |-> "ann", email |-> "ann@x"]}

\* A callback that waits for nothing.
NoCallback == [pc |-> "idle", uid |-> Null]

\* AuthProvider with nobody signed in, after its effect has found no session.
AuthIdle ==
    /\ authLoading = FALSE
    /\ boot = [NoCallback EXCEPT !.pc = "done"]
    /\ listener = NoCallback
    /\ lastEvent = "none"
    /\ authUser = NoAuthUser
    /\ accounts = SampleAccounts
    /\ profiles = SampleProfiles
    /\ session = Null
    /\ authEvents = <<>>
    /\ call = NoCall
    /\ authCalls = 0

\* The other screens as they are mounted.
OtherIdle == FeedIdle /\ PickIdle("android") /\ AuthIdle

\* The list has not been set by any fetch.
NoFetch == [rid |-> 0, at |-> 0, event |-> FALSE, again |-> FALSE]

\* No report detail view yet, no comments on the server.
CommentIdle ==
    /\ cdb = {}
    /\ changes = 0
    /\ mounted = FALSE
    /\ inst = 0
    /\ viewId = 0
    /\ comments = <<>>
    /\ report = [id |-> 0, image_url |-> NoRef, category |-> "",
                 location |-> NoLoc, username |-> ""]
    /\ error = Null
    /\ lastOrigin = "none"
    /\ lastFetch = NoFetch
    /\ subs = <<>>
    /\ tasks = <<>>
    /\ rtasks = <<>>
    /\ newComment = <<>>
    /\ posting = FALSE
    /\ adds = <<>>
    /\ lastAdd = "none"

InitSubmit == (\E vt \in Variants : SubmitIdle(vt)) /\ CommentIdle /\ OtherIdle

(* ------------------------------------------------------------------ *)
(* The environment: the user, the identity provider, the clock         *)
(* ------------------------------------------------------------------ *)
\* handleImagePicker / takePhoto / pickImage: an asset was returned.
SetImage(v) ==
    /\ shown[v]
    /\ ~form[v].image
    /\ form' = [form EXCEPT ![v].image = TRUE]
    /\ UNCHANGED <<identity, started, now, variant, loading, storage, reports, inv, commentVars, otherVars, shown>>

\* getCurrentLocation's success callback.
SetLocation(v) ==
    /\ shown[v]
    /\ LocationRequested(variant, form[v])
    /\ form[v].location = NoLoc
    /\ form' = [form EXCEPT ![v].location = SomeLoc]
    /\ UNCHANGED <<identity, started, now, variant, loading, storage, reports, inv, commentVars, otherVars, shown>>

\* A category button is pressed.
SetCategory(v) ==
    /\ shown[v]
    /\ form[v].category = ""
    /\ form' = [form EXCEPT ![v].category = "waste"]
    /\ UNCHANGED <<identity, started, now, variant, loading, storage, reports, inv, commentVars, otherVars, shown>>

SignOut(v) ==
    /\ v \in SessionChanges
    /\ identity[v] # NoUser
    /\ identity' = [identity EXCEPT ![v] = NoUser]
    /\ UNCHANGED <<started, now, variant, form, loading, storage, reports, inv, commentVars, otherVars, shown>>

SignIn(v, u) ==
    /\ v \in SessionChanges
    /\ identity[v] # u
    /\ identity' = [identity EXCEPT ![v] = u]
    /\ UNCHANGED <<started, now, variant, form, loading, storage, reports, inv, commentVars, otherVars, shown>>

(* ------------------------------------------------------------------ *)
(* handleSubmit, one action per await                                  *)
(* ------------------------------------------------------------------ *)
\* Mutant: setLoading(false) is left out.
SetLoadingTrueOnly(v, b) == IF shown[v] /\ b THEN [loading EXCEPT ![v] = b] ELSE loading

\* setLoading(b) of view v: a state setter of an unmounted screen does
\* nothing.
SetLoading(v, b) == IF shown[v] THEN [loading EXCEPT ![v] = b] ELSE loading

\* The screen with the form of view v is unmounted: MainNavigator renders
\* the sign-in screens once there is no user.  A handleSubmit call in flight
\* goes on.
LeaveForm(v) ==
    /\ shown[v]
    /\ identity[v] = NoUser
    /\ shown' = [shown EXCEPT ![v] = FALSE]
    /\ UNCHANGED <<identity, started, now, variant, form, loading, storage,
                   reports, inv, commentVars, otherVars>>

\* The lane a new invocation of view v runs in.
LaneFor(v) == IF Free(inv[<<v, "a">>]) THEN "a" ELSE "b"

\* What Date.now() / new Date().getTime() may return: the clock does not
\* run backwards, and two readings may fall in the same millisecond.
ClockReadings == now..MaxTime

\* The press of the submit button up to the first await.
SubmitStart(v) ==
    /\ shown[v]
    /\ started < MaxInv
    /\ started' = started + 1
    /\ ButtonEnabled(variant, form[v], loading[v])
    /\ Free(inv[<<v, LaneFor(v)>>])
    /\ IF FormValid(variant, form[v])
       THEN /\ inv' = [inv EXCEPT ![<<v, LaneFor(v)>>] = NewInvocation(variant, form[v])]
            /\ loading' = SetLoading(v, TRUE)
       ELSE /\ inv' = [inv EXCEPT ![<<v, LaneFor(v)>>] = Rejected(variant, form[v])]
            /\ UNCHANGED loading
    /\ UNCHANGED <<identity, now, variant, form, storage, reports, commentVars, otherVars, shown>>

\* After the identity check.
AfterAuth(r, uid, t) ==
    [r EXCEPT !.user = uid, !.path = ObjectPath(r.variant, uid, t), !.pc = "upload",
              !.log = Append(@, Ev("upload", "start"))]

\* Whether handleSubmit goes on with what the identity provider returned.
AuthOk(net, uid) == ~(net \/ uid = NoUser)

\* getUser (CreateReportScreen) or getSession (ReportScreen) resolves.
AuthResolve(s) ==
    /\ inv[s].pc = "auth"
    /\ \E net \in BOOLEAN :
        LET uid == identity[s[1]]
            got == [inv[s] EXCEPT !.log = Append(@, Resolved("auth", ~net /\ uid # NoUser))]
        IN  IF AuthOk(net, uid)
            THEN /\ \E t \in ClockReadings :
                      /\ now' = t
                      /\ inv' = [inv EXCEPT ![s] = AfterAuth(got, uid, t)]
                 /\ UNCHANGED loading
            ELSE /\ inv' = [inv EXCEPT ![s] = Fail(got, "auth", IF net THEN MsgNetwork ELSE "")]
                 /\ loading' = SetLoading(s[1], FALSE)
                 /\ UNCHANGED now
    /\ UNCHANGED <<identity, started, variant, form, storage, reports, commentVars, otherVars, shown>>

\* fetch(report.image) and response.blob() resolve (main/ReportScreen).
FetchResolve(s) ==
    /\ inv[s].pc = "fetch"
    /\ \E net \in BOOLEAN :
        LET got == [inv[s] EXCEPT !.log = Append(@, Resolved("fetch", ~net))]
        IN  IF net
            THEN /\ inv' = [inv EXCEPT ![s] = Fail(got, "fetch", MsgNetwork)]
                 /\ loading' = SetLoading(s[1], FALSE)
                 /\ UNCHANGED now
            ELSE /\ \E t \in ClockReadings :
                      /\ now' = t
                      /\ inv' = [inv EXCEPT ![s] =
                            [got EXCEPT !.path = ObjectPath(got.variant, NoUser, t),
                                        !.pc = "upload",
                                        !.log = Append(@, Ev("upload", "start"))]]
                 /\ UNCHANGED loading
    /\ UNCHANGED <<identity, started, variant, form, storage, reports, commentVars, otherVars, shown>>

\* Mutant: the insert is issued before the URL is resolved.
AfterUploadInsertFirst(r) ==
    [r EXCEPT !.ref = PublicUrl(r.path), !.pc = "insert",
              !.log = @ \o <<Ev("insert", "start"), Ev("url", "start"), Ev("url", "ok")>>]

\* What follows the upload, up to the next await. getPublicUrl is
\* synchronous and always yields a URL.
AfterUpload(r) ==
    CASE r.variant = VCreate ->
            [r EXCEPT !.ref = PublicUrl(r.path), !.pc = "insert",
                      !.log = @ \o <<Ev("url", "start"), Ev("url", "ok"),
                                     Ev("insert", "start")>>]
      [] r.variant = VLegacy ->
            [r EXCEPT !.pc = "url", !.log = Append(@, Ev("url", "start"))]
      [] r.variant = VMain ->
            [r EXCEPT !.ref = PathRef(r.path), !.pc = "insert",
                      !.log = Append(@, Ev("insert", "start"))]

\* Mutant: the upload's error is not looked at.
UploadOkIgnored(err) == TRUE

\* Whether handleSubmit goes on after the upload's error value err.
UploadOk(err) == err = Null

\* storage.upload resolves.
UploadResolve(s) ==
    /\ inv[s].pc = "upload"
    /\ \E net \in BOOLEAN :
        LET r == inv[s]
            err == UploadError(r.path, identity[s[1]], net, storage)
            got == [r EXCEPT !.upErr = err, !.upUid = identity[s[1]],
                             !.stored = (err = Null),
                             !.log = Append(@, Resolved("upload", err = Null))]
        IN  /\ storage' = IF err = Null THEN storage \cup {r.path} ELSE storage
            /\ IF UploadOk(err)
               THEN /\ inv' = [inv EXCEPT ![s] = AfterUpload(got)]
                    /\ UNCHANGED loading
               ELSE /\ inv' = [inv EXCEPT ![s] = Fail(got, "upload", err)]
                    /\ loading' = SetLoading(s[1], FALSE)
    /\ UNCHANGED <<identity, started, now, variant, form, reports, commentVars, otherVars, shown>>

\* createSignedUrl resolves (ReportScreen).
UrlResolve(s) ==
    /\ inv[s].pc = "url"
    /\ \E net \in BOOLEAN :
        LET got == [inv[s] EXCEPT !.log = Append(@, Resolved("url", ~net))]
        IN  IF net
            THEN /\ inv' = [inv EXCEPT ![s] = Fail(got, "url", MsgNetwork)]
                 /\ loading' = SetLoading(s[1], FALSE)
            ELSE /\ \E ref \in SignedUrlResults(got.path) :
                      inv' = [inv EXCEPT ![s] =
                        [got EXCEPT !.ref = ref, !.pc = "insert",
                                    !.log = Append(@, Ev("insert", "start"))]]
                 /\ UNCHANGED loading
    /\ UNCHANGED <<identity, started, now, variant, form, storage, reports, commentVars, otherVars, shown>>

\* The stored row: the record and the id the server gives it.
NewRow(data, table) ==
    [id |-> Cardinality(table) + 1, user_id |-> data.user_id,
     image_url |-> data.image_url, location |-> data.location,
     category |-> data.category]

\* Mutant: the insert's error is not looked at.
InsertOkIgnored(err) == TRUE

\* Whether handleSubmit takes the insert's error value err for a success.
InsertOk(err) == err = Null

\* from('reports').insert resolves.
InsertResolve(s) ==
    /\ inv[s].pc = "insert"
    /\ \E net \in BOOLEAN :
        LET r == inv[s]
            data == ReportData(r.variant, r)
            err == InsertError(data, identity[s[1]], net)
            got == [r EXCEPT !.insErr = err, !.insUid = identity[s[1]],
                             !.rowed = (err = Null),
                             !.log = Append(@, Resolved("insert", err = Null))]
        IN  /\ reports' = IF err = Null THEN reports \cup {NewRow(data, reports)} ELSE reports
            /\ IF InsertOk(err)
               THEN /\ inv' = [inv EXCEPT ![s] = Succeed(got)]
                    /\ form' = IF r.variant = VMain
                               THEN [form EXCEPT ![s[1]] = InitialForm(VMain)]
                               ELSE form
               ELSE /\ inv' = [inv EXCEPT ![s] = Fail(got, "insert", err)]
                    /\ UNCHANGED form
            /\ loading' = SetLoading(s[1], FALSE)
    /\ UNCHANGED <<identity, started, now, variant, storage, commentVars, otherVars, shown>>

NextSubmit ==
    \/ \E v \in Views : SetImage(v)
    \/ \E v \in Views : SetLocation(v)
    \/ \E v \in Views : SetCategory(v)
    \/ \E v \in Views : SignOut(v)
    \/ \E v \in Views, u \in Users : SignIn(v, u)
    \/ \E v \in Views : SubmitStart(v)
    \/ \E s \in Slots : AuthResolve(s)
    \/ \E s \in Slots : FetchResolve(s)
    \/ \E s \in Slots : UploadResolve(s)
    \/ \E s \in Slots : UrlResolve(s)
    \/ \E s \in Slots : InsertResolve(s)

SpecSubmit == InitSubmit /\ [][NextSubmit]_vars

\* CreateReportScreen, whose screen the user may leave while a handleSubmit
\* call is in flight.
InitUnmount == SubmitIdle(VCreate) /\ CommentIdle /\ OtherIdle

\* The steps CreateReportScreen's handleSubmit has (its URL step does not
\* wait), and the leaving of the screen on the device whose session changes.
NextUnmount ==
    \/ \E v \in Views : SetImage(v)
    \/ \E v \in Views : SetLocation(v)
    \/ \E v \in SessionChanges : SignOut(v)
    \/ \E v \in SessionChanges, u \in Users : SignIn(v, u)
    \/ \E v \in Views : SubmitStart(v)
    \/ \E s \in Slots : AuthResolve(s)
    \/ \E s \in Slots : UploadResolve(s)
    \/ \E s \in Slots : InsertResolve(s)
    \/ \E v \in SessionChanges : LeaveForm(v)

SpecUnmount == InitUnmount /\ [][NextUnmount]_vars

(* ------------------------------------------------------------------ *)
(* Submission: the claims                                              *)
(* ------------------------------------------------------------------ *)
Categories == {"pollution", "deforestation", "waste", "other"}

UploadFailed(r) == r.upErr \notin {"unset", Null}
InsertFailed(r) == r.insErr \notin {"unset", Null}
Done(r) == r.pc = "done"
Succeeded(r) == Done(r) /\ r.failedAt = "none"
Failed(r) == Done(r) /\ r.failedAt # "none"

\* C1: an invocation whose upload failed has ended, has issued no insert
\* and has stored no row.
C1_NoRecordWhenUploadFails ==
    \A s \in Slots :
        UploadFailed(inv[s]) =>
            Done(inv[s]) /\ inv[s].insErr = "unset" /\ ~inv[s].rowed

C1_Witness == \E s \in Slots : UploadFailed(inv[s]) /\ Done(inv[s])

\* What the caller is shown when the upload fails, for each message of the
\* storage service.
UploadFailureTexts(vt) ==
    {FailureText(vt, "upload", m) : m \in {MsgNetwork, MsgPolicy, MsgExists}}

\* C2: when the upload succeeded and the insert failed, the invocation ends
\* with a text no upload failure produces, and the object is still stored.
C2_PersistFailedDistinct ==
    \A s \in Slots :
        (inv[s].stored /\ InsertFailed(inv[s])) =>
            /\ Failed(inv[s])
            /\ inv[s].msg \notin UploadFailureTexts(inv[s].variant)
            /\ inv[s].path \in storage

\* C3: an invocation with an image, a category of the closed set and no
\* location is not turned down, and a row it stores has no location.
C3_LocationOptional ==
    \A s \in Slots :
        (Done(inv[s]) /\ inv[s].hadImage /\ inv[s].category \in Categories
                      /\ inv[s].loc = NoLoc) =>
            /\ inv[s].failedAt # "validate"
            /\ inv[s].rowed => ReportData(inv[s].variant, inv[s]).location = NoLoc

\* C4: every invocation that got past the form check begins with the
\* identity check, and issues an upload only with the identity it read.
C4_IdentityCheckedFirst ==
    \A s \in Slots :
        LET r == inv[s]
        IN  /\ (r.pc # "idle" /\ r.failedAt # "validate") => r.log[1] = Ev("auth", "start")
            /\ r.upErr # "unset" => r.user # NoUser

\* C5: the row an invocation stored carries as user_id the session's user
\* at the time the insert was answered.
C5_OwnerIsCurrentIdentity ==
    \A s \in Slots :
        inv[s].rowed =>
            /\ inv[s].insUid # NoUser
            /\ ReportData(inv[s].variant, inv[s]).user_id = inv[s].insUid
            /\ \E row \in reports : row.user_id = inv[s].insUid

\* The session's user changed between the identity check and the upload's
\* answer, and the row was stored all the same.
C5_Witness ==
    \E s \in Slots : inv[s].rowed /\ inv[s].upUid # inv[s].user

StepRank(step) ==
    CASE step = "fetch" -> 0
      [] step = "auth" -> 1
      [] step = "upload" -> 2
      [] step = "url" -> 3
      [] step = "insert" -> 4

C7_SideEffects ==
    \A s \in Slots :
        /\ Succeeded(inv[s]) => inv[s].stored /\ inv[s].rowed
        /\ Failed(inv[s]) => ~inv[s].rowed

C7_Witness ==
    /\ \E s \in Slots : Succeeded(inv[s])
    /\ \E s \in Slots : Failed(inv[s]) /\ inv[s].stored

\* C8: the path of an upload is made of the identity's id and the time, and
\* no two invocations that reached the upload use the same path.
C8_DistinctPaths ==
    \A s \in Slots :
        inv[s].path # NoPath =>
            /\ inv[s].path[1] = inv[s].user
            /\ \A t \in Slots \ {s} : inv[t].path # inv[s].path

\* C9: the image_url of every row is a durable reference to a stored object.
C9_DurableImageRef ==
    \A row \in reports :
        /\ row.image_url.kind \in {"public", "path"}
        /\ row.image_url.path \in storage

(* ------------------------------------------------------------------ *)
(* The report detail view: values                                      *)
(* ------------------------------------------------------------------ *)

\* Changes of the comments table plus runs of the view's effect, and
\* fetchComments calls in flight at once.
MaxStimuli == 3
MaxTasks == 2

ReportIds == {1, 2}
Device == "v1"
FirstText == <<"f", "i", "r", "s", "t">>
EditedText == <<"e", "d", "i", "t">>

\* user_metadata.username of an account.
Username(u) == IF u = "u1" THEN "alice" ELSE "bob"

\* Two reports that were submitted through CreateReportScreen earlier.
SampleData(n) ==
    [user_id |-> "u2", image_url |-> PublicUrl(<<"u2", n>>),
     location |-> SomeLoc, category |-> "pollution"]

SampleReports == LET one == {NewRow(SampleData(0), {})}
                 IN  one \cup {NewRow(SampleData(1), one)}

SampleObjects == {row.image_url.path : row \in SampleReports}

\* The comments made before the model starts: one on each report.
SampleComments ==
    {[id |-> 1, report_id |-> 1, user_id |-> "u1", text |-> FirstText,
      created_at |-> 1],
     [id |-> 2, report_id |-> 2, user_id |-> "u2", text |-> FirstText,
      created_at |-> 2]}

\* The id and the created_at the server gives to the next comment.
NextStamp(n) == Cardinality(SampleComments) + n + 1

\* Whether the table may change or the effect may run once more.
MoreStimuli(n, q) == n + Len(q) < MaxStimuli

\* The rows of table t in ascending order of created_at.
RECURSIVE OrderAscending(_)
OrderAscending(t) ==
    IF t = {} THEN <<>>
    ELSE LET c == CHOOSE x \in t : \A y \in t : x.created_at <= y.created_at
         IN  <<c>> \o OrderAscending(t \ {c})

\* Mutant: the query without its report_id filter.
QueryAllComments(rid, table) == OrderAscending(table)

\* from('comments').select('*').eq('report_id', id).order('created_at', asc)
QueryComments(rid, table) ==
    OrderAscending({c \in table : c.report_id = rid})

\* The list fetchComments hands to setComments: the fetched fields and the
\* username, which is the current user's for their own comments.
CommentsWithUsers(data, uid) ==
    [i \in 1..Len(data) |->
        [id |-> data[i].id, text |-> data[i].text,
         created_at |-> data[i].created_at, user_id |-> data[i].user_id,
         username |-> IF uid # NoUser /\ data[i].user_id = uid
                      THEN Username(uid) ELSE "Anonymous"]]

\* from('reports').select('*').eq('id', id).single()
QueryReport(rid, table) ==
    LET hit == {row \in table : row.id = rid}
    IN  IF Cardinality(hit) = 1 THEN <<CHOOSE row \in hit : TRUE>> ELSE <<>>

\* The Report that fetchReport hands to setReport.
TransformedReport(row, uid) ==
    [id |-> row.id, image_url |-> row.image_url, category |-> row.category,
     location |-> IF row.location # NoLoc THEN row.location ELSE <<0, 0>>,
     username |-> IF uid # NoUser THEN Username(uid) ELSE "Unknown User"]

NoReport == [id |-> 0, image_url |-> NoRef, category |-> "",
             location |-> NoLoc, username |-> ""]

RemoveAt(q, k) == SubSeq(q, 1, k - 1) \o SubSeq(q, k + 1, Len(q))

\* A fetchComments or fetchReport call: the id of its closure, the view
\* instance whose state it sets, what started it, where it stands, the data
\* of its query, and (for the record) the origin and the data of the call
\* that was started after this one and has set the list already.
NotOvertaken == [origin |-> "none", data |-> <<>>]

Task(rid, i, origin) ==
    [rid |-> rid, inst |-> i, origin |-> origin, pc |-> "query", data |-> <<>>,
     at |-> 0, after |-> NotOvertaken]

\* The calls in flight after call k has set the list: the calls started
\* before it are noted as overtaken.  The calls are kept in the order of
\* their start.
Overtake(q, k) ==
    [i \in 1..Len(q) |->
        IF i < k
        THEN [q[i] EXCEPT !.after = [origin |-> q[k].origin, data |-> q[k].data]]
        ELSE q[i]]

\* A subscription made by subscribeToComments: the id of its filter, the view
\* instance whose callback it holds, whether the server has joined it, and
\* the number of events not yet delivered to the callback.
Subscription(rid, i) ==
    [rid |-> rid, inst |-> i, joined |-> FALSE, pending |-> 0]

\* The server's notification of a change of a comment of report rid.
Notify(q, rid) ==
    [j \in 1..Len(q) |->
        IF q[j].joined /\ q[j].rid = rid
        THEN [q[j] EXCEPT !.pending = @ + 1] ELSE q[j]]

(* ------------------------------------------------------------------ *)
(* The report detail view: actions                                     *)
(* ------------------------------------------------------------------ *)

\* Two reports with one comment each exist, and the detail view of report 1
\* has just been opened: its state is fresh and its effect has run.
InitComments ==
    /\ identity = [v \in Views |-> IF v = "v1" THEN "u1" ELSE "u2"]
    /\ started = 0
    /\ now = 0
    /\ variant = VCreate
    /\ form = [v \in Views |-> InitialForm(VCreate)]
    /\ loading = [v \in Views |-> FALSE]
    /\ shown = [v \in Views |-> TRUE]
    /\ storage = SampleObjects
    /\ reports = SampleReports
    /\ inv = [s \in Slots |-> Idle(VCreate)]
    /\ cdb = SampleComments
    /\ changes = 0
    /\ mounted = TRUE
    /\ inst = 1
    /\ viewId = 1
    /\ comments = <<>>
    /\ report = NoReport
    /\ error = Null
    /\ lastOrigin = "none"
    /\ lastFetch = NoFetch
    /\ rtasks = <<Task(1, 1, "mount")>>
    /\ tasks = <<Task(1, 1, "mount")>>
    /\ subs = <<Subscription(1, 1)>>
    /\ newComment = <<>>
    /\ posting = FALSE
    /\ adds = <<>>
    /\ lastAdd = "none"
    /\ OtherIdle

\* Another user's comment on report rid reaches the table; the server assigns id
\* and created_at.
DbInsert(rid, u) ==
    /\ u # identity[Device]
    /\ MoreStimuli(changes, subs)
    /\ cdb' = cdb \cup {[id |-> NextStamp(changes), report_id |-> rid,
                         user_id |-> u, text |-> FirstText,
                         created_at |-> NextStamp(changes)]}
    /\ changes' = changes + 1
    /\ subs' = Notify(subs, rid)
    /\ UNCHANGED <<submitVars, otherVars, addVars, mounted, inst, viewId, comments, report,
                   error, lastOrigin, lastFetch, tasks, rtasks>>

\* The owner of comment c edits it.
DbUpdate(c) ==
    /\ MoreStimuli(changes, subs)
    /\ c.text = FirstText
    /\ cdb' = (cdb \ {c}) \cup {[c EXCEPT !.text = EditedText]}
    /\ changes' = changes + 1
    /\ subs' = Notify(subs, c.report_id)
    /\ UNCHANGED <<submitVars, otherVars, addVars, mounted, inst, viewId, comments, report,
                   error, lastOrigin, lastFetch, tasks, rtasks>>

\* The owner of comment c deletes it.
DbDelete(c) ==
    /\ MoreStimuli(changes, subs)
    /\ cdb' = cdb \ {c}
    /\ changes' = changes + 1
    /\ subs' = Notify(subs, c.report_id)
    /\ UNCHANGED <<submitVars, otherVars, addVars, mounted, inst, viewId, comments, report,
                   error, lastOrigin, lastFetch, tasks, rtasks>>

\* Mutant: the effect subscribes without fetching.
RunEffectSubscribeOnly(rid, i) ==
    /\ MoreStimuli(changes, subs)
    /\ Len(tasks) < MaxTasks
    /\ subs' = Append(subs, Subscription(rid, i))
    /\ UNCHANGED <<tasks, rtasks>>

\* The effect of ReportDetailScreen for id rid in view instance i:
\* fetchReport(), fetchComments(), subscribeToComments().  It returns no
\* cleanup, so nothing is done to the subscriptions made by earlier runs.
RunEffect(rid, i) ==
    /\ MoreStimuli(changes, subs)
    /\ Len(tasks) < MaxTasks
    /\ rtasks' = Append(rtasks, Task(rid, i, "mount"))
    /\ tasks' = Append(tasks, Task(rid, i, "mount"))
    /\ subs' = Append(subs, Subscription(rid, i))

\* The user opens the detail view of report rid: a new instance with fresh
\* state, whose effect runs.
Enter(rid) ==
    /\ ~mounted
    /\ mounted' = TRUE
    /\ inst' = inst + 1
    /\ viewId' = rid
    /\ comments' = <<>>
    /\ report' = NoReport
    /\ error' = Null
    /\ lastOrigin' = "none"
    /\ lastFetch' = NoFetch
    /\ newComment' = <<>>
    /\ posting' = FALSE
    /\ RunEffect(rid, inst + 1)
    /\ UNCHANGED <<submitVars, otherVars, cdb, changes, adds, lastAdd>>

\* The open view is given another id: the state stays, the effect runs again.
ChangeId(rid) ==
    /\ mounted
    /\ rid # viewId
    /\ viewId' = rid
    /\ RunEffect(rid, inst)
    /\ UNCHANGED <<submitVars, otherVars, addVars, cdb, changes, mounted, inst, comments, report,
                   error, lastOrigin, lastFetch>>

\* The user leaves the view.  No cleanup was registered by the effect.
Leave ==
    /\ mounted
    /\ mounted' = FALSE
    /\ UNCHANGED <<submitVars, otherVars, addVars, cdb, changes, inst, viewId, comments,
                   report, error, lastOrigin, lastFetch, subs, tasks, rtasks>>

\* The server joins subscription j.
SubJoined(j) ==
    /\ ~subs[j].joined
    /\ subs' = [subs EXCEPT ![j].joined = TRUE]
    /\ UNCHANGED <<submitVars, otherVars, addVars, cdb, changes, mounted, inst, viewId,
                   comments, report, error, lastOrigin, lastFetch, tasks, rtasks>>

\* An event reaches the callback of subscription j, which looks at nothing
\* of it and calls the fetchComments of its closure.
Deliver(j) ==
    /\ subs[j].pending > 0
    /\ Len(tasks) < MaxTasks
    /\ subs' = [subs EXCEPT ![j].pending = @ - 1]
    /\ tasks' = Append(tasks, Task(subs[j].rid, subs[j].inst, "event"))
    /\ UNCHANGED <<submitVars, otherVars, addVars, cdb, changes, mounted, inst, viewId,
                   comments, report, error, lastOrigin, lastFetch, rtasks>>

\* Whether a state setter of view instance i still has a view to set.
Alive(i) == mounted /\ i = inst

\* Mutant: the fetched comments are added to the list.
ListAfterFetchAppended(list, fetched) == list \o fetched

\* setComments(commentsWithUsers): the fetched list replaces the local one.
ListAfterFetch(list, fetched) == fetched

\* The record of the query whose result sets the list: of which report,
\* after how many changes of the table, whether an event started the call,
\* and whether the call before it was started by an event too and made the
\* same query of the same state of the table.
FetchRecord(t, last) ==
    [rid |-> t.rid, at |-> t.at, event |-> t.origin = "event",
     again |-> /\ t.origin = "event"
               /\ last.event
               /\ last.rid = t.rid
               /\ last.at = t.at]

\* The query of fetchComments call k resolves: with an error the call
\* returns and the list stays as it is, else the call goes on to getUser.
FetchQuery(k) ==
    /\ tasks[k].pc = "query"
    /\ \E ok \in BOOLEAN :
          tasks' = IF ok
                   THEN [tasks EXCEPT ![k].pc = "user",
                                      ![k].data = QueryComments(tasks[k].rid, cdb),
                                      ![k].at = changes]
                   ELSE RemoveAt(tasks, k)
    /\ UNCHANGED <<submitVars, otherVars, addVars, cdb, changes, mounted, inst, viewId,
                   comments, report, error, lastOrigin, lastFetch, subs, rtasks>>

\* getUser of fetchComments call k resolves and setComments replaces the
\* list of the view the call belongs to.
FetchApply(k) ==
    /\ tasks[k].pc = "user"
    /\ IF Alive(tasks[k].inst)
       THEN /\ comments' = ListAfterFetch(comments,
                               CommentsWithUsers(tasks[k].data, identity[Device]))
            /\ lastOrigin' = tasks[k].origin
            /\ lastFetch' = FetchRecord(tasks[k], lastFetch)
            /\ tasks' = RemoveAt(Overtake(tasks, k), k)
       ELSE /\ tasks' = RemoveAt(tasks, k)
            /\ UNCHANGED <<comments, lastOrigin, lastFetch>>
    /\ UNCHANGED <<submitVars, otherVars, addVars, cdb, changes, mounted, inst, viewId,
                   report, error, subs, rtasks>>

\* The query of fetchReport call k resolves: with an error (single() found
\* no row, or the request failed) the error text is set.
ReportQuery(k) ==
    /\ rtasks[k].pc = "query"
    /\ \E net \in BOOLEAN :
          LET data == IF net THEN QueryReport(rtasks[k].rid, reports) ELSE <<>>
          IN  IF data # <<>>
              THEN /\ rtasks' = [rtasks EXCEPT ![k].pc = "user", ![k].data = data]
                   /\ UNCHANGED error
              ELSE /\ rtasks' = RemoveAt(rtasks, k)
                   /\ error' = IF Alive(rtasks[k].inst)
                               THEN "Failed to load report" ELSE error
    /\ UNCHANGED <<submitVars, otherVars, addVars, cdb, changes, mounted, inst, viewId,
                   comments, report, lastOrigin, lastFetch, subs, tasks>>

\* Mutant: a fetchReport that has loaded the report clears the error.
ErrorAfterLoadCleared(err) == Null

\* The error text after fetchReport has loaded the report: setError is not
\* called.
ErrorAfterLoad(err) == err

\* getUser of fetchReport call k resolves and setReport is called.
ReportApply(k) ==
    /\ rtasks[k].pc = "user"
    /\ rtasks' = RemoveAt(rtasks, k)
    /\ report' = IF Alive(rtasks[k].inst)
                 THEN TransformedReport(rtasks[k].data[1], identity[Device])
                 ELSE report
    /\ error' = IF Alive(rtasks[k].inst) THEN ErrorAfterLoad(error) ELSE error
    /\ UNCHANGED <<submitVars, otherVars, addVars, cdb, changes, mounted, inst, viewId,
                   comments, lastOrigin, lastFetch, subs, tasks>>

\* The comment list under changes of the table and of the view.  The steps of
\* fetchReport set report and error only, which no step below reads, and are
\* not part of this specification.
NextComments ==
    \/ \E rid \in ReportIds, u \in Users : DbInsert(rid, u)
    \/ \E c \in cdb : DbUpdate(c)
    \/ \E c \in cdb : DbDelete(c)
    \/ \E rid \in ReportIds : Enter(rid)
    \/ \E rid \in ReportIds : ChangeId(rid)
    \/ Leave
    \/ \E j \in DOMAIN subs : SubJoined(j)
    \/ \E j \in DOMAIN subs : Deliver(j)
    \/ \E k \in DOMAIN tasks : FetchQuery(k)
    \/ \E k \in DOMAIN tasks : FetchApply(k)

SpecComments == InitComments /\ [][NextComments]_vars

(* ------------------------------------------------------------------ *)
(* Comment sync: the claims                                            *)
(* ------------------------------------------------------------------ *)

\* What a comment is on the server and in the list alike.
Fields(c) ==
    [id |-> c.id, text |-> c.text, created_at |-> c.created_at,
     user_id |-> c.user_id]

FieldsOf(list) == [i \in 1..Len(list) |-> Fields(list[i])]

\* list is a full fetch of the comments of report rid from table: every
\* comment of the report once, none else, in ascending order of created_at.
IsFreshFetch(list, rid, table) ==
    /\ \A i, j \in 1..Len(list) : i < j => list[i].created_at <= list[j].created_at
    /\ \A i, j \in 1..Len(list) : i # j => list[i].id # list[j].id
    /\ {Fields(list[i]) : i \in 1..Len(list)}
          = {Fields(c) : c \in {x \in table : x.report_id = rid}}

\* In this step the query of fetchComments call k was answered with data.
Answered(k) ==
    /\ tasks[k].pc = "query"
    /\ Len(tasks') = Len(tasks)
    /\ tasks'[k].pc = "user"

\* In this step fetchComments call k ended (its query failed, or it came to
\* setComments).
Ended(k) ==
    LET Calls(q) == [i \in 1..Len(q) |-> [q[i] EXCEPT !.after = NotOvertaken]]
    IN  Calls(tasks') = RemoveAt(Calls(tasks), k)

\* Call k came from an event for the report that its view still shows.
ForViewedReport(k) ==
    /\ tasks[k].origin = "event"
    /\ Alive(tasks[k].inst)
    /\ tasks[k].rid = viewId

SetsList(k) ==
    /\ tasks[k].pc = "user"
    /\ Alive(tasks[k].inst)
    /\ Ended(k)

Refetches == {"event", "add"}

\* C11: the last refetch wins: when a refetch (started by a change event or
\* by addComment) sets the list after a refetch that was started later than
\* it has set the list, the list is still the result of the later one.
C11_LastRefetchWins ==
    [][\A k \in DOMAIN tasks :
          (/\ tasks[k].origin \in Refetches
           /\ tasks[k].after.origin \in Refetches
           /\ SetsList(k))
              => FieldsOf(comments') = FieldsOf(tasks[k].after.data)]_vars

(* ------------------------------------------------------------------ *)
(* handleAddComment                                                    *)
(* ------------------------------------------------------------------ *)

\* Comments that handleAddComment calls insert or are about to insert.
MaxAdds == 1

\* What the user types: texts are sequences of characters.
Drafts == {<<>>, <<" ">>, <<" ", "h", "i", " ">>}

RECURSIVE TrimStart(_)
TrimStart(t) == IF t # <<>> /\ Head(t) = " " THEN TrimStart(Tail(t)) ELSE t

RECURSIVE TrimEnd(_)
TrimEnd(t) ==
    IF t # <<>> /\ t[Len(t)] = " " THEN TrimEnd(SubSeq(t, 1, Len(t) - 1)) ELSE t

\* String.prototype.trim
Trim(t) == TrimEnd(TrimStart(t))

\* The view renders the input card only without an error and with a report.
InputShown == mounted /\ error = Null /\ report # NoReport

\* disabled={loading || !newComment.trim()}
PostDisabled(draft, ld) == ld \/ Trim(draft) = <<>>

MsgSignIn == "Please sign in to comment"
MsgAddFailed == "Failed to add comment"

\* A handleAddComment call: the id and the draft of its closure, the view
\* instance whose state it sets, where it stands, the user it read.
AddCall(rid, i, draft) ==
    [rid |-> rid, inst |-> i, text |-> draft, pc |-> "user", uid |-> NoUser]

\* Mutant: the draft is sent as it was typed.
CommentDataRaw(a) == [report_id |-> a.rid, text |-> a.text, user_id |-> a.uid]

\* The row handleAddComment sends.
CommentData(a) == [report_id |-> a.rid, text |-> Trim(a.text), user_id |-> a.uid]

\* "Enable insert for authenticated users": auth.role() = 'authenticated'
CommentsInsertPolicy(uid) == uid # NoUser

\* The error of the insert of row data arriving with the session of uid.
CommentInsertError(data, uid, net) ==
    IF ~net THEN MsgNetwork
    ELSE IF ~CommentsInsertPolicy(uid) THEN MsgPolicy
    ELSE IF data.text = Null \/ data.user_id = NoUser THEN MsgNotNull
    ELSE Null

\* Mutant: the inserted row is spliced into the list at once.
ListAfterAddSpliced(list, data) ==
    Append(list, [id |-> 0, text |-> data.text, created_at |-> 0,
                  user_id |-> data.user_id, username |-> Username(data.user_id)])

\* The list after a successful insert of handleAddComment: as it was (the
\* call clears the draft and calls fetchComments, nothing else).
ListAfterAdd(list, data) == list

\* The user edits the draft.
TypeComment(d) ==
    /\ InputShown
    /\ d # newComment
    /\ newComment' = d
    /\ UNCHANGED <<submitVars, otherVars, cdb, changes, mounted, inst, viewId, comments,
                   report, error, lastOrigin, lastFetch, subs, tasks, rtasks, posting,
                   adds, lastAdd>>

\* Whether one more handleAddComment call may start: each one may insert.
MoreAdds == changes + Len(adds) < MaxAdds

\* The user presses Post.  A disabled button does nothing; else
\* handleAddComment runs up to its first await.
PressPost ==
    /\ InputShown
    /\ MoreAdds
    /\ IF PostDisabled(newComment, posting) \/ Trim(newComment) = <<>>
       THEN /\ lastAdd' = IF Trim(newComment) = <<>> THEN "blank" ELSE "busy"
            /\ UNCHANGED <<posting, adds>>
       ELSE /\ posting' = TRUE
            /\ adds' = Append(adds, AddCall(viewId, inst, newComment))
            /\ lastAdd' = "started"
    /\ UNCHANGED <<submitVars, otherVars, cdb, changes, mounted, inst, viewId, comments,
                   report, error, lastOrigin, lastFetch, subs, tasks, rtasks, newComment>>

\* getUser of handleAddComment call a resolves: without a user the error is
\* set and the call ends (finally: setLoading(false)).
AddUser(a) ==
    /\ adds[a].pc = "user"
    /\ \E net \in BOOLEAN :
          LET uid == IF net THEN identity[Device] ELSE NoUser
          IN  IF uid = NoUser
              THEN /\ adds' = RemoveAt(adds, a)
                   /\ IF Alive(adds[a].inst)
                      THEN error' = MsgSignIn /\ posting' = FALSE
                      ELSE UNCHANGED <<error, posting>>
                   /\ lastAdd' = MsgSignIn
              ELSE /\ adds' = [adds EXCEPT ![a].pc = "insert", ![a].uid = uid]
                   /\ UNCHANGED <<error, posting, lastAdd>>
    /\ UNCHANGED <<submitVars, otherVars, cdb, changes, mounted, inst, viewId, comments,
                   report, lastOrigin, lastFetch, subs, tasks, rtasks, newComment>>

\* Mutant: the call issues its insert again.
AfterInsertAgain(q, a) == q

\* The calls in flight after the insert of call a has resolved: the call
\* goes to its end, whatever the insert returned.
AfterInsert(q, a) == RemoveAt(q, a)

\* Mutant: the draft is cleared whatever the insert returned.
DraftAfterInsertCleared(draft, err) == <<>>

\* The draft after the insert has returned err: setNewComment('') is reached
\* only without an error.
DraftAfterInsert(draft, err) == IF err = Null THEN <<>> ELSE draft

\* The insert of handleAddComment call a resolves: with an error the error
\* is set; else the draft is cleared and fetchComments is called.  Either way
\* the call ends with setLoading(false).
AddInsert(a) ==
    /\ adds[a].pc = "insert"
    /\ Len(tasks) < MaxTasks
    /\ adds' = AfterInsert(adds, a)
    /\ \E net \in BOOLEAN :
          LET data == CommentData(adds[a])
              err == CommentInsertError(data, identity[Device], net)
          IN  IF err # Null
              THEN /\ error' = IF Alive(adds[a].inst) THEN MsgAddFailed ELSE error
                   /\ lastAdd' = MsgAddFailed
                   /\ newComment' = IF Alive(adds[a].inst)
                                    THEN DraftAfterInsert(newComment, err) ELSE newComment
                   /\ UNCHANGED <<cdb, changes, subs, tasks, comments>>
              ELSE /\ cdb' = cdb \cup {[id |-> NextStamp(changes),
                                        report_id |-> data.report_id,
                                        user_id |-> data.user_id,
                                        text |-> data.text,
                                        created_at |-> NextStamp(changes)]}
                   /\ changes' = changes + 1
                   /\ subs' = Notify(subs, data.report_id)
                   /\ newComment' = IF Alive(adds[a].inst)
                                    THEN DraftAfterInsert(newComment, err) ELSE newComment
                   /\ tasks' = Append(tasks, Task(adds[a].rid, adds[a].inst, "add"))
                   /\ comments' = IF Alive(adds[a].inst)
                                  THEN ListAfterAdd(comments, data) ELSE comments
                   /\ lastAdd' = "added"
                   /\ UNCHANGED error
    /\ posting' = IF Alive(adds[a].inst) THEN FALSE ELSE posting
    /\ UNCHANGED <<submitVars, otherVars, mounted, inst, viewId, report, lastOrigin, lastFetch, rtasks>>

\* The detail view with its report, its comment list and its Post button,
\* under changes of the session.  The change feed stays silent here (the
\* subscription is not joined); its events are part of SpecComments.
NextAdd ==
    \/ \E k \in DOMAIN rtasks : ReportQuery(k)
    \/ \E k \in DOMAIN rtasks : ReportApply(k)
    \/ \E d \in Drafts : TypeComment(d)
    \/ PressPost
    \/ \E a \in DOMAIN adds : AddUser(a)
    \/ \E a \in DOMAIN adds : AddInsert(a)
    \/ \E v \in SessionChanges : SignOut(v)
    \/ \E v \in SessionChanges, u \in Users : SignIn(v, u)
    \/ Leave
    \/ \E k \in DOMAIN tasks : FetchQuery(k)
    \/ \E k \in DOMAIN tasks : FetchApply(k)

SpecAdd == InitComments /\ [][NextAdd]_vars

(* ------------------------------------------------------------------ *)
(* handleAddComment: the claims                                        *)
(* ------------------------------------------------------------------ *)

Blank(t) == Trim(t) = <<>>

\* No call and no row of the comments table carries a blank text.
NoBlankInsert ==
    /\ \A a \in DOMAIN adds : ~Blank(adds[a].text)
    /\ \A c \in cdb : ~Blank(c.text)

\* C12: a press of Post with an empty or whitespace-only draft fails with a
\* validation failure that the view shows, and inserts nothing.
C12_BlankFailsValidation ==
    /\ lastAdd = "blank" => error # Null
    /\ NoBlankInsert

\* In this step handleAddComment call a went on from getUser to its insert.
GoesToInsert(a) ==
    /\ adds[a].pc = "user"
    /\ Len(adds') = Len(adds)
    /\ adds'[a].pc = "insert"

\* In this step handleAddComment call a ended.
AddEnded(a) == adds' = RemoveAt(adds, a)

\* C13: handleAddComment reads the identity when it is called and goes on to
\* the insert only with one; a call that found none inserts nothing; and a
\* row that a call inserts carries the report id of the view at the call,
\* the identity the call read, and the trimmed draft, which is not empty.
C13_InsertsOwnTrimmedComment ==
    [][/\ Len(adds') = Len(adds) + 1
          => /\ adds'[Len(adds')].rid = viewId
             /\ adds'[Len(adds')].text = newComment
       /\ \A a \in DOMAIN adds :
             /\ GoesToInsert(a)
                   => /\ identity[Device] # NoUser
                      /\ adds'[a].uid = identity[Device]
             /\ (adds[a].pc = "user" /\ AddEnded(a)) => cdb' = cdb
             /\ (adds[a].pc = "insert" /\ AddEnded(a))
                   => \A c \in cdb' \ cdb :
                         /\ c.report_id = adds[a].rid
                         /\ c.user_id = adds[a].uid
                         /\ c.user_id # NoUser
                         /\ c.text = Trim(adds[a].text)
                         /\ c.text # <<>>]_vars

\* A comment that was typed with blanks around it is in the table of the
\* viewed report, trimmed, under a user's id.
C13_Witness ==
    /\ \E c \in cdb \ SampleComments :
          /\ c.text = <<"h", "i">>
          /\ c.user_id \in Users
          /\ c.report_id = viewId
    /\ lastAdd = "added"

\* C14: the list changes only by being replaced with the data of a
\* fetchComments call, that data is the full ordered list the table held when
\* the call's query ran, and the step in which handleAddComment's insert
\* succeeds leaves the list as it is.
C14_ListOnlyFromFetch ==
    [][/\ comments' # comments
          => \E k \in DOMAIN tasks :
                /\ tasks[k].pc = "user"
                /\ Ended(k)
                /\ FieldsOf(comments') = FieldsOf(tasks[k].data)
       /\ \A k \in DOMAIN tasks :
             Answered(k) => IsFreshFetch(tasks'[k].data, tasks[k].rid, cdb)
       /\ \A a \in DOMAIN adds :
             (adds[a].pc = "insert" /\ AddEnded(a)) => comments' = comments]_vars

\* The comment that handleAddComment inserted is in the list, put there by
\* the refetch that the call started.
C14_Witness ==
    /\ lastOrigin = "add"
    /\ \E i \in 1..Len(comments) :
          /\ comments[i].text = <<"h", "i">>
          /\ \E c \in cdb \ SampleComments :
                c.id = comments[i].id /\ c.created_at = comments[i].created_at

(* ------------------------------------------------------------------ *)
(* The subscription's life: the claims                                 *)
(* ------------------------------------------------------------------ *)

\* The subscriptions that were made and not released.  Nothing in the view
\* calls unsubscribe, so these are all that were made.
OpenSubscriptions == {j \in DOMAIN subs : TRUE}

\* C15: at most one comment subscription is open at a time, and none is open
\* when no report view is open.
C15_SubscriptionReleased ==
    /\ Cardinality(OpenSubscriptions) <= 1
    /\ ~mounted => OpenSubscriptions = {}

\* The initial fetch that the effect run of subscription j started is still
\* in flight as call k.
InitialFetchOf(j, k) ==
    /\ tasks[k].origin = "mount"
    /\ tasks[k].rid = subs[j].rid
    /\ tasks[k].inst = subs[j].inst

\* C16 as stated: a subscription is open only after the initial fetch of its
\* effect run: no subscription is live (joined by the server) while that
\* fetch is in flight.
C16_SubscribedAfterFetch ==
    \A j \in DOMAIN subs : \A k \in DOMAIN tasks :
        subs[j].joined => ~InitialFetchOf(j, k)

\* C16, amended: a subscription is opened only by an effect run that has
\* started the fetch of the full list for the same report id, the id the
\* view shows; the subscription is opened in that same run, without
\* waiting for the fetch.
C16_SubscribedWithFetch ==
    [][Len(subs') > Len(subs)
          => /\ Len(subs') = Len(subs) + 1
             /\ Len(tasks') = Len(tasks) + 1
             /\ subs'[Len(subs')] = Subscription(viewId', inst')
             /\ tasks'[Len(tasks')] = Task(viewId', inst', "mount")
             /\ mounted']_vars

\* The view was entered again, its subscription is joined and its initial
\* fetch is still waiting for the answer to its query.
C16_Witness ==
    /\ mounted
    /\ inst > 1
    /\ \E j \in DOMAIN subs : \E k \in DOMAIN tasks :
          /\ subs[j].inst = inst
          /\ subs[j].joined
          /\ InitialFetchOf(j, k)
          /\ tasks[k].pc = "query"

(* ------------------------------------------------------------------ *)
(* Submission from a screen that was left: the claims                  *)
(* ------------------------------------------------------------------ *)

\* In this step the handleSubmit call of slot s ended.
SubmitEnds(s) == InFlight(inv[s]) /\ Done(inv'[s])

\* C17: when the screen that started a submit has been left before the submit
\* ends, the end of the submit shows no alert and sets no state of the view.
C17_ResultDiscarded ==
    [][\A s \in Slots :
          (SubmitEnds(s) /\ ~shown[s[1]])
              => /\ inv'[s].msg = <<>>
                 /\ loading' = loading
                 /\ form' = form]_vars

(* ------------------------------------------------------------------ *)
(* The sync engine's states: the claims                                *)
(* ------------------------------------------------------------------ *)

\* In this step an event of subscription j reached its callback, which
\* started a refetch.
StartsRefetch(j) ==
    /\ Len(subs') = Len(subs)
    /\ subs'[j].pending < subs[j].pending

\* C18: a refetch is started from a change event only between the opening of
\* the subscription and the leaving of the view: the subscription is joined
\* and the view instance it belongs to is still open.
C18_ReconcileOnlyWhileSubscribed ==
    [][\A j \in DOMAIN subs :
          StartsRefetch(j) => subs[j].joined /\ Alive(subs[j].inst)]_vars

\* The service answers: a subscription is joined, an event is delivered, a
\* query is answered with data, getUser resolves.
FairComments ==
    /\ WF_vars(\E j \in DOMAIN subs : SubJoined(j))
    /\ WF_vars(\E j \in DOMAIN subs : Deliver(j))
    /\ WF_vars(\E k \in DOMAIN tasks : FetchQuery(k) /\ Len(tasks') = Len(tasks))
    /\ WF_vars(\E k \in DOMAIN tasks : FetchApply(k))

SpecCommentsFair == InitComments /\ [][NextComments]_vars /\ FairComments

\* C19: when the view stays open, the list is in the end, and for good, the
\* full ordered list of the comments the table holds for the viewed report.
C19_EventuallyConsistent ==
    []mounted => <>[]IsFreshFetch(comments, viewId, cdb)

(* ------------------------------------------------------------------ *)
(* Duplicate delivery of change events                                 *)
(* ------------------------------------------------------------------ *)

\* The change feed delivers an event of subscription j once more: the
\* callback will run for it again.
Duplicate(j) ==
    /\ subs[j].pending > 0
    /\ subs[j].pending < MaxStimuli
    /\ subs' = [subs EXCEPT ![j].pending = @ + 1]
    /\ UNCHANGED <<submitVars, otherVars, addVars, cdb, changes, mounted, inst, viewId,
                   comments, report, error, lastOrigin, lastFetch, tasks, rtasks>>

\* The open detail view under changes of the comments of its report, with
\* a change feed that may deliver an event more than once.
NextDuplicates ==
    \/ \E u \in Users : DbInsert(viewId, u)
    \/ \E c \in {d \in cdb : d.report_id = viewId} : DbUpdate(c)
    \/ \E c \in {d \in cdb : d.report_id = viewId} : DbDelete(c)
    \/ \E j \in DOMAIN subs : SubJoined(j)
    \/ \E j \in DOMAIN subs : Deliver(j)
    \/ \E j \in DOMAIN subs : Duplicate(j)
    \/ \E k \in DOMAIN tasks : FetchQuery(k)
    \/ \E k \in DOMAIN tasks : FetchApply(k)

SpecDuplicates == InitComments /\ [][NextDuplicates]_vars

\* The query of call k read the table in the state in which the query
\* behind the present list read it, for the same report.
SameQueryAsList(k) ==
    /\ tasks[k].rid = lastFetch.rid
    /\ tasks[k].at = lastFetch.at

\* C20: handling a change event again while the table has not changed leaves
\* the list as it is: when a refetch started by an event sets the list from
\* a query of the same state of the table as the query the list came from,
\* the list after it equals the list before it.
C20_DuplicateDeliveryIdempotent ==
    [][\A k \in DOMAIN tasks :
          (/\ tasks[k].origin = "event"
           /\ SameQueryAsList(k)
           /\ SetsList(k))
              => comments' = comments]_vars

\* Two refetches in a row, both started by events, have set a list that is
\* not empty from the same state of the table.
C20_Witness ==
    /\ lastFetch.again
    /\ lastOrigin = "event"
    /\ comments # <<>>

(* ------------------------------------------------------------------ *)
(* The feed (HomeScreen): texts, the query, the filter                 *)
(* ------------------------------------------------------------------ *)
MaxFeedStimuli == 3

\* Texts are sequences of characters.  The letters that have two cases, as
\* <<upper, lower>>.
CasePairs ==
    {<<"A", "a">>, <<"L", "l">>, <<"P", "p">>, <<"S", "s">>, <<"W", "w">>}

\* String.prototype.toLowerCase, character by character.
ToLowerCase(t) ==
    [i \in 1..Len(t) |->
        IF \E p \in CasePairs : p[1] = t[i]
        THEN (CHOOSE p \in CasePairs : p[1] = t[i])[2]
        ELSE t[i]]

\* String.prototype.includes
Includes(t, part) ==
    \E i \in 0..(Len(t) - Len(part)) : SubSeq(t, i + 1, i + Len(part)) = part

\* A description that is null in the table.
NullText == <<"null">>

\* report.description?.toLowerCase().includes(searchQuery.toLowerCase())
TextIncludes(t, q) ==
    t # NullText /\ Includes(ToLowerCase(t), ToLowerCase(q))

\* The categories HomeScreen's menu offers.
CATEGORIES ==
    <<[id |-> <<"p", "o", "l", "l", "u", "t", "i", "o", "n">>, label |-> "Pollution"],
      [id |-> <<"d", "e", "f", "o", "r", "e", "s", "t", "a", "t", "i", "o", "n">>,
       label |-> "Deforestation"],
      [id |-> <<"w", "a", "s", "t", "e">>, label |-> "Illegal Waste"],
      [id |-> <<"o", "t", "h", "e", "r">>, label |-> "Other"]>>

Labels == {CATEGORIES[i].label : i \in DOMAIN CATEGORIES}

\* CATEGORIES.find(cat => cat.label === selectedCategory)?.id
CategoryId(label) ==
    CATEGORIES[CHOOSE i \in DOMAIN CATEGORIES : CATEGORIES[i].label = label].id

\* The category ReportScreen's buttons store for waste: 'Waste'.
LegacyWaste == <<"W", "a", "s", "t", "e">>

Plastic == <<"P", "l", "a", "s", "t", "i", "c">>

\* What the user may type into the search bar.
SearchTexts == {<<>>, <<"A", "S">>, <<"p", "l">>}

\* The items of the menu the user picks.
PickedLabels == {CATEGORIES[1].label, CATEGORIES[3].label}

\* The rows the reports table holds when the feed is opened, with the
\* columns the feed looks at: one report made with CreateReportScreen, one
\* made with ReportScreen and without a description.
FeedSample ==
    {[id |-> 1, user_id |-> "u1", category |-> CATEGORIES[3].id,
      description |-> Plastic, created_at |-> 1],
     [id |-> 2, user_id |-> "u2", category |-> LegacyWaste,
      description |-> NullText, created_at |-> 2]}

\* The rows others may insert: created_at is the server's clock, which may
\* give two rows the same reading.
NewReports(table, n) ==
    LET latest == IF table = {} THEN 0
                  ELSE CHOOSE t \in {r.created_at : r \in table} :
                           \A r \in table : r.created_at <= t
        Row(c, d, t) == [id |-> Cardinality(FeedSample) + n + 1, user_id |-> "u2",
                         category |-> c, description |-> d, created_at |-> t]
    IN  {Row(CATEGORIES[1].id, Plastic, latest), Row(LegacyWaste, <<>>, latest + 1)}

\* All the ways to list the rows of the table.
Listings(table) ==
    {q \in [1..Cardinality(table) -> table] :
        \A i, j \in 1..Cardinality(table) : i # j => q[i] # q[j]}

IsNewestFirst(list) ==
    \A i, j \in 1..Len(list) : i < j => list[i].created_at >= list[j].created_at

IsOldestFirst(list) ==
    \A i, j \in 1..Len(list) : i < j => list[i].created_at <= list[j].created_at

\* Mutant: the query orders ascending.
QueryReportsAscending(table) == {q \in Listings(table) : IsOldestFirst(q)}

\* from('reports').select('*').order('created_at', { ascending: false }):
\* the answers the server may give (rows of equal created_at in any order).
QueryReports(table) == {q \in Listings(table) : IsNewestFirst(q)}

\* reportsWithUsers: each row with the username fetchReports gives it.
ReportsWithUsers(data, uid) ==
    [i \in 1..Len(data) |->
        [id |-> data[i].id, user_id |-> data[i].user_id,
         category |-> data[i].category, description |-> data[i].description,
         created_at |-> data[i].created_at,
         username |-> IF uid # NoUser /\ data[i].user_id = uid
                      THEN Username(uid) ELSE "Anonymous"]]

\* Mutant: the text is compared as it is typed.
MatchesTextCaseSensitive(r, q) ==
    \/ r.description # NullText /\ Includes(r.description, q)
    \/ Includes(r.category, q)

\* The test of filterReports' first filter.
MatchesText(r, q) ==
    TextIncludes(r.description, q) \/ TextIncludes(r.category, q)

\* Mutant: the category is compared as it is stored.
MatchesCategoryCaseSensitive(r, label) ==
    r.category = CategoryId(label)

\* The test of filterReports' second filter.
MatchesCategory(r, label) ==
    ToLowerCase(r.category) = ToLowerCase(CategoryId(label))

\* filterReports: what it hands to setFilteredReports.
FilterReports(list, q, label) ==
    LET ByText(r) == MatchesText(r, q)
        ByCategory(r) == MatchesCategory(r, label)
        filtered == IF q # <<>> THEN SelectSeq(list, ByText) ELSE list
    IN  IF label # Null THEN SelectSeq(filtered, ByCategory) ELSE filtered

(* ------------------------------------------------------------------ *)
(* The feed (HomeScreen): actions                                      *)
(* ------------------------------------------------------------------ *)

\* HomeScreen has just been mounted over a table with two reports; the user
\* of the device is signed in.
InitFeed ==
    /\ identity = [v \in Views |-> IF v = "v1" THEN "u1" ELSE "u2"]
    /\ started = 0
    /\ now = 0
    /\ variant = VCreate
    /\ form = [v \in Views |-> InitialForm(VCreate)]
    /\ loading = [v \in Views |-> FALSE]
    /\ shown = [v \in Views |-> TRUE]
    /\ storage = {}
    /\ reports = FeedSample
    /\ inv = [s \in Slots |-> Idle(VCreate)]
    /\ CommentIdle
    /\ OtherIdle

\* The text the catch block of fetchReports sets.
MsgLoadReports == "Failed to load reports"

\* A fetchReports call: what started it, where it stands, the data of its
\* query.
FetchCall(origin) == [origin |-> origin, pc |-> "query", data |-> <<>>]

\* What HomeScreen renders instead of the search bar, the menu and the list.
Spinner == homeLoading /\ ~refreshing

\* Mutant: fetchReports leaves the error text as it finds it.
ErrorAtStartKept(err) == err

\* setError(null) at the start of fetchReports.
ErrorAtStart(err) == Null

\* The start of fetchReports up to its first await.
StartFetchReports(origin) ==
    /\ feedChanges < MaxFeedStimuli
    /\ feedChanges' = feedChanges + 1
    /\ homeLoading' = TRUE
    /\ homeError' = ErrorAtStart(homeError)
    /\ fetches' = Append(fetches, FetchCall(origin))

\* The screen comes into focus: the listener calls fetchReports.
Focus ==
    /\ ~filterPending
    /\ StartFetchReports("focus")
    /\ homeEvent' = "focus"
    /\ UNCHANGED <<submitVars, commentVars, besideFeed, homeReports, filteredReports,
                   searchQuery, selectedCategory, refreshing, filterPending>>

\* onRefresh: the list is pulled down.
Refresh ==
    /\ ~filterPending
    /\ ~Spinner
    /\ homeError = Null
    /\ refreshing' = TRUE
    /\ StartFetchReports("refresh")
    /\ homeEvent' = "none"
    /\ UNCHANGED <<submitVars, commentVars, besideFeed, homeReports, filteredReports,
                   searchQuery, selectedCategory, filterPending>>

\* The user types into the search bar: the text changes, and the filter
\* effect is due once the screen has rendered.
SetSearchQuery(q) ==
    /\ ~filterPending
    /\ ~Spinner
    /\ q # searchQuery
    /\ searchQuery' = q
    /\ filterPending' = TRUE
    /\ homeEvent' = "none"
    /\ UNCHANGED <<submitVars, commentVars, besideFeed, homeReports, filteredReports,
                   selectedCategory, homeLoading, homeError, refreshing,
                   fetches, feedChanges>>

\* The user picks an item of the menu: a label, or 'All Categories'.
SetSelectedCategory(c) ==
    /\ ~filterPending
    /\ ~Spinner
    /\ c # selectedCategory
    /\ selectedCategory' = c
    /\ filterPending' = TRUE
    /\ homeEvent' = "none"
    /\ UNCHANGED <<submitVars, commentVars, besideFeed, homeReports, filteredReports,
                   searchQuery, homeLoading, homeError, refreshing, fetches,
                   feedChanges>>

\* The effect on [searchQuery, selectedCategory, reports] runs filterReports.
FilterEffect ==
    /\ filterPending
    /\ filteredReports' = FilterReports(homeReports, searchQuery, selectedCategory)
    /\ filterPending' = FALSE
    /\ homeEvent' = "none"
    /\ UNCHANGED <<submitVars, commentVars, besideFeed, homeReports, searchQuery,
                   selectedCategory, homeLoading, homeError, refreshing,
                   fetches, feedChanges>>

\* The query of fetchReports call k resolves: with an error the catch block
\* sets the error text and the finally block clears the flags, else the
\* call goes on to getUser.
FeedQuery(k) ==
    /\ ~filterPending
    /\ fetches[k].pc = "query"
    /\ \E ok \in BOOLEAN :
          IF ok
          THEN /\ \E data \in QueryReports(reports) :
                     fetches' = [fetches EXCEPT ![k].pc = "user", ![k].data = data]
               /\ homeEvent' = "none"
               /\ UNCHANGED <<homeError, homeLoading, refreshing>>
          ELSE /\ fetches' = RemoveAt(fetches, k)
               /\ homeError' = MsgLoadReports
               /\ homeLoading' = FALSE
               /\ refreshing' = FALSE
               /\ homeEvent' = "none"
    /\ UNCHANGED <<submitVars, commentVars, besideFeed, homeReports, filteredReports,
                   searchQuery, selectedCategory, filterPending, feedChanges>>

\* Mutant: the fetched rows are put in front of the rows held so far.
ReportsAfterFetchPatched(list, fetched) ==
    LET Old(r) == \A i \in 1..Len(fetched) : fetched[i].id # r.id
    IN  fetched \o SelectSeq(list, Old)

\* setReports(reportsWithUsers)
ReportsAfterFetch(list, fetched) == fetched

\* getUser of fetchReports call k resolves: setReports and
\* setFilteredReports get the fetched list, the finally block clears the
\* flags, and the filter effect is due because reports has changed.
FeedApply(k) ==
    /\ ~filterPending
    /\ fetches[k].pc = "user"
    /\ LET fetched == ReportsWithUsers(fetches[k].data, identity[Device])
       IN  /\ homeReports' = ReportsAfterFetch(homeReports, fetched)
           /\ filteredReports' = fetched
    /\ filterPending' = TRUE
    /\ homeLoading' = FALSE
    /\ refreshing' = FALSE
    /\ fetches' = RemoveAt(fetches, k)
    /\ homeEvent' = "none"
    /\ UNCHANGED <<submitVars, commentVars, besideFeed, searchQuery, selectedCategory,
                   homeError, feedChanges>>

\* Another user's report reaches the table.
ReportInserted(row) ==
    /\ feedChanges < MaxFeedStimuli
    /\ feedChanges' = feedChanges + 1
    /\ reports' = reports \cup {row}
    /\ UNCHANGED <<identity, started, now, variant, form, loading, shown,
                   storage, inv, commentVars, besideFeed, homeReports, filteredReports,
                   searchQuery, selectedCategory, homeLoading, homeError,
                   refreshing, filterPending, fetches, homeEvent>>

\* The owner of report row deletes it.
ReportDeleted(row) ==
    /\ feedChanges < MaxFeedStimuli
    /\ feedChanges' = feedChanges + 1
    /\ reports' = reports \ {row}
    /\ UNCHANGED <<identity, started, now, variant, form, loading, shown,
                   storage, inv, commentVars, besideFeed, homeReports, filteredReports,
                   searchQuery, selectedCategory, homeLoading, homeError,
                   refreshing, filterPending, fetches, homeEvent>>

NextFeed ==
    \/ Focus
    \/ Refresh
    \/ \E q \in SearchTexts : SetSearchQuery(q)
    \/ \E c \in PickedLabels \cup {Null} : SetSelectedCategory(c)
    \/ FilterEffect
    \/ \E k \in DOMAIN fetches : FeedQuery(k)
    \/ \E k \in DOMAIN fetches : FeedApply(k)
    \/ \E row \in NewReports(reports, feedChanges) : ReportInserted(row)
    \/ \E row \in reports : ReportDeleted(row)

SpecFeed == InitFeed /\ [][NextFeed]_vars

(* ------------------------------------------------------------------ *)
(* The feed: the claims                                                *)
(* ------------------------------------------------------------------ *)

\* C21: the list the feed shows is ordered newest first by created_at at
\* all times, whatever the text and the category filter are.
C21_FeedNewestFirst ==
    IsNewestFirst(filteredReports) /\ IsNewestFirst(homeReports)

\* A text filter is set, and the feed shows two reports of different age.
C21_Witness ==
    /\ searchQuery # <<>>
    /\ ~filterPending
    /\ Len(filteredReports) >= 2
    /\ filteredReports[1].created_at > filteredReports[Len(filteredReports)].created_at

\* Two characters are the same letter.
SameLetter(a, b) == a = b \/ <<a, b>> \in CasePairs \/ <<b, a>> \in CasePairs

\* Text t holds the text part somewhere, letter case aside.
ContainsIgnoringCase(t, part) ==
    /\ t # NullText
    /\ \E i \in 0..(Len(t) - Len(part)) :
          \A j \in 1..Len(part) : SameLetter(t[i + j], part[j])

\* Texts a and b are the same, letter case aside.
SameIgnoringCase(a, b) ==
    Len(a) = Len(b) /\ \A j \in 1..Len(a) : SameLetter(a[j], b[j])

\* filterReports runs in this step.
FilterRuns == filterPending /\ ~filterPending'

\* The reports of list that pass test Keep, in the order of list.
Subset(list, Keep(_)) == SelectSeq(list, Keep)

\* C22: with a text filter that is not empty (and no category chosen), what
\* filterReports makes the feed is exactly the fetched reports whose
\* description or category holds the text, letter case aside, none dropped
\* and none more.
C22_TextFilterExact ==
    [][(FilterRuns /\ searchQuery # <<>> /\ selectedCategory = Null)
          => LET Has(r) == \/ ContainsIgnoringCase(r.description, searchQuery)
                           \/ ContainsIgnoringCase(r.category, searchQuery)
             IN  filteredReports' = Subset(homeReports, Has)]_vars

\* The text typed in lower case has kept a report whose text is in upper
\* case, and has dropped another one.
C22_Witness ==
    /\ ~filterPending
    /\ selectedCategory = Null
    /\ searchQuery = <<"p", "l">>
    /\ Len(filteredReports) >= 1
    /\ Len(filteredReports) < Len(homeReports)

\* C23 as stated: with a category chosen, the feed is exactly the fetched
\* reports whose category is the chosen category's id, character for
\* character (and which pass the text filter, when one is set).
C23_CategoryExactMatch ==
    [][(FilterRuns /\ selectedCategory # Null)
          => LET Has(r) ==
                   /\ r.category = CategoryId(selectedCategory)
                   /\ \/ searchQuery = <<>>
                      \/ ContainsIgnoringCase(r.description, searchQuery)
                      \/ ContainsIgnoringCase(r.category, searchQuery)
             IN  filteredReports' = Subset(homeReports, Has)]_vars

\* C23, amended: with a category chosen, the feed is exactly the fetched
\* reports whose category is the chosen category's id, letter case aside;
\* when a text filter is set as well, it is those of them that pass the
\* text filter too.
C23_CategoryMatchIgnoringCase ==
    [][(FilterRuns /\ selectedCategory # Null)
          => LET Has(r) ==
                   /\ SameIgnoringCase(r.category, CategoryId(selectedCategory))
                   /\ \/ searchQuery = <<>>
                      \/ ContainsIgnoringCase(r.description, searchQuery)
                      \/ ContainsIgnoringCase(r.category, searchQuery)
             IN  filteredReports' = Subset(homeReports, Has)]_vars

\* With 'Illegal Waste' chosen and a text set, the feed shows a report made
\* with category 'Waste' and leaves out a fetched report.
C23_Witness ==
    /\ ~filterPending
    /\ selectedCategory = CATEGORIES[3].label
    /\ searchQuery # <<>>
    /\ \E i \in 1..Len(filteredReports) : filteredReports[i].category = LegacyWaste
    /\ Len(filteredReports) < Len(homeReports)

\* The rows of a list of the feed, without the username.
RowsOf(list) ==
    {[id |-> list[i].id, user_id |-> list[i].user_id,
      category |-> list[i].category, description |-> list[i].description,
      created_at |-> list[i].created_at] : i \in 1..Len(list)}

\* A focus event has happened in this step.
FocusHappens ==
    homeEvent' = "focus" /\ (homeEvent # "focus" \/ fetches' # fetches)

\* C24: every focus event starts a fetchReports call, whose query reads the
\* whole table, and when the call succeeds the reports held are exactly the
\* rows it fetched: none of the rows held before is kept.
C24_FocusRefetchesAll ==
    [][/\ FocusHappens => fetches' = Append(fetches, FetchCall("focus"))
       /\ \A k \in DOMAIN fetches :
            /\ (fetches[k].pc = "query" /\ Len(fetches') = Len(fetches)
                /\ fetches'[k].pc = "user")
                   => RowsOf(fetches'[k].data) = reports
            /\ (fetches[k].pc = "user" /\ fetches' = RemoveAt(fetches, k))
                   => /\ RowsOf(homeReports') = RowsOf(fetches[k].data)
                      /\ Len(homeReports') = Len(fetches[k].data)]_vars

\* The feed holds reports, the table has changed since, and a focus event
\* has just started a fetch.
C24_Witness ==
    /\ homeEvent = "focus"
    /\ homeReports # <<>>
    /\ fetches # <<>>
    /\ RowsOf(homeReports) # reports

\* A step in which a fetchReports call ends in its catch block: a call that
\* waits for its query leaves the calls in flight.
FetchFails ==
    \E k \in DOMAIN fetches :
        fetches[k].pc = "query" /\ fetches' = RemoveAt(fetches, k)

\* C39: a fetchReports call that fails leaves reports and filteredReports
\* as they are and sets the error text; every start of fetchReports clears
\* the error text; and after every fetchReports call that ends, failed or
\* not, loading and refreshing are false.
C39_FailedFetchKeepsFeed ==
    [][/\ FetchFails =>
            /\ homeReports' = homeReports
            /\ filteredReports' = filteredReports
            /\ homeError' = MsgLoadReports
       /\ Len(fetches') > Len(fetches) => homeError' = Null
       /\ Len(fetches') < Len(fetches) =>
            /\ homeLoading' = FALSE
            /\ refreshing' = FALSE]_vars

\* Two fetchReports calls have ended, one of them in its catch block: the
\* error text is set, the flags are cleared and the fetched list is in
\* store and shown.
C39_Witness ==
    /\ homeError = MsgLoadReports
    /\ homeReports # <<>>
    /\ filteredReports = homeReports
    /\ fetches = <<>>
    /\ feedChanges = 2
    /\ ~homeLoading
    /\ ~refreshing
    /\ ~filterPending

(* ------------------------------------------------------------------ *)
(* Image capture: handleImagePicker, takePhoto, pickImage              *)
(* ------------------------------------------------------------------ *)
PickTypes == {"camera", "gallery"}

Platforms == {"ios", "android"}

\* Whether the handler awaits PermissionsAndroid.request before it opens
\* the picker: requestCameraPermission of CreateReportScreen and of
\* ReportScreen asks on Android and returns true elsewhere; the
\* handleImagePicker of screens/main does not ask.
AsksPermission(vt, type, os) ==
    type = "camera" /\ vt \in {VCreate, VLegacy} /\ os = "android"

\* What PermissionsAndroid.request may answer: granted at once when the
\* permission is held, else what the user chooses.
PermissionAnswers(perm) == IF perm = "granted" THEN {TRUE} ELSE BOOLEAN

\* What launchCamera / launchImageLibrary may return: an asset, didCancel,
\* an errorCode, and for the camera the errorCode 'permission' unless the
\* permission is held.
PickerResults(type, perm) ==
    CASE type = "camera" /\ perm = "denied" -> {"permission"}
      [] type = "camera" /\ perm = "ask" -> {"asset", "cancel", "error", "permission"}
      [] OTHER -> {"asset", "cancel", "error"}

\* What the handler shows when the permission request was not granted.
DeniedOutcome(vt) ==
    IF vt = VCreate
    THEN Shows("error", "Failed to capture/select image: Camera permission denied")
    ELSE Shows("alert", "Permission Denied")

\* Mutant: didCancel is handled like an errorCode.
PickOutcomeCancelFails(vt, type, res) ==
    CASE res = "asset" -> ShowsNothing
      [] vt = VCreate -> Shows("error", "Failed to capture/select image: Image picker error")
      [] vt = VLegacy /\ type = "camera" -> Shows("alert", "Error")
      [] OTHER -> ShowsNothing

\* What the handler shows for what the picker returned.
PickOutcome(vt, type, res) ==
    CASE res = "asset" -> ShowsNothing
      [] res = "cancel" ->
            IF vt = VLegacy /\ type = "camera"
            THEN Shows("alert", "Cancelled") ELSE ShowsNothing
      [] vt = VCreate -> Shows("error", "Failed to capture/select image: Image picker error")
      [] vt = VLegacy /\ type = "camera" -> Shows("alert", "Error")
      [] OTHER -> ShowsNothing

\* setError, when the call ends with an error text.
ErrorAfter(shows, err) == IF shows.kind = "error" THEN shows.text ELSE err

\* One of the three form screens on one device, with the camera permission
\* in any of its states.
InitCapture ==
    /\ \E vt \in Variants : SubmitIdle(vt)
    /\ CommentIdle
    /\ FeedIdle
    /\ \E os \in Platforms : platform = os
    /\ camPerm \in {"ask", "granted", "denied"}
    /\ pick = NoPick
    /\ pickError = Null
    /\ AuthIdle

\* A button of the image section is pressed: the handler runs up to its
\* first await.
PressPicker(type) ==
    /\ shown[Device]
    /\ pick.pc = "idle"
    /\ pick' = IF AsksPermission(variant, type, platform)
               THEN [NoPick EXCEPT !.type = type, !.pc = "permission", !.asked = TRUE]
               ELSE [NoPick EXCEPT !.type = type, !.pc = "surface", !.surfaced = TRUE]
    /\ UNCHANGED <<submitVars, commentVars, besidePick, platform, camPerm, pickError>>

\* PermissionsAndroid.request resolves.
PermissionAnswer(granted) ==
    /\ pick.pc = "permission"
    /\ granted \in PermissionAnswers(camPerm)
    /\ camPerm' = IF granted THEN "granted" ELSE "denied"
    /\ IF granted
       THEN /\ pick' = [pick EXCEPT !.pc = "surface", !.confirmed = TRUE,
                                    !.surfaced = TRUE]
            /\ UNCHANGED pickError
       ELSE /\ pick' = [pick EXCEPT !.pc = "idle", !.denied = TRUE,
                                    !.outcome = DeniedOutcome(variant)]
            /\ pickError' = ErrorAfter(DeniedOutcome(variant), pickError)
    /\ UNCHANGED <<submitVars, commentVars, besidePick, platform>>

\* launchCamera / launchImageLibrary resolves and the handler runs to its
\* end: an asset sets the image of the form.
PickerAnswer(res) ==
    /\ pick.pc = "surface"
    /\ res \in PickerResults(pick.type, camPerm)
    /\ LET shows == PickOutcome(variant, pick.type, res)
       IN  /\ pick' = [pick EXCEPT !.pc = "idle", !.result = res,
                                   !.denied = (res = "permission"),
                                   !.outcome = shows]
           /\ pickError' = ErrorAfter(shows, pickError)
    /\ form' = IF res = "asset" THEN [form EXCEPT ![Device].image = TRUE] ELSE form
    /\ camPerm' = IF pick.type = "camera" /\ platform = "ios" /\ camPerm = "ask"
                  THEN (IF res = "permission" THEN "denied" ELSE "granted")
                  ELSE camPerm
    /\ UNCHANGED <<identity, started, now, variant, loading, shown, storage,
                   reports, inv, commentVars, besidePick, platform>>

NextCapture ==
    \/ \E type \in PickTypes : PressPicker(type)
    \/ \E granted \in BOOLEAN : PermissionAnswer(granted)
    \/ \E res \in {"asset", "cancel", "error", "permission"} : PickerAnswer(res)
    \/ SetLocation(Device)
    \/ SetCategory(Device)

SpecCapture == InitCapture /\ [][NextCapture]_vars

(* ------------------------------------------------------------------ *)
(* Image capture: the claims                                           *)
(* ------------------------------------------------------------------ *)

\* C25: a call for the camera opens the picker only after it was told that
\* the camera permission is granted; a call that met a denied permission
\* has not opened the picker, and what it shows is something, and not what
\* a cancelled call shows.
C25_PermissionBeforeCamera ==
    pick.type = "camera" =>
        /\ pick.surfaced => pick.confirmed
        /\ (pick.denied /\ pick.pc = "idle") =>
              /\ ~pick.surfaced
              /\ pick.outcome.kind # "none"
              /\ pick.outcome # PickOutcome(variant, "camera", "cancel")

\* The picker returns didCancel in this step.
CancelReturns ==
    pick.pc = "surface" /\ pick'.pc = "idle" /\ pick'.result = "cancel"

\* C26: when the user cancels the picker, the call ends without a failure:
\* it shows no error, the error text of the screen stays what it was, and
\* the form is left as it is.
C26_CancelIsNoError ==
    [][CancelReturns =>
          /\ form' = form
          /\ pickError' = pickError
          /\ pick'.outcome.kind # "error"
          /\ pick'.outcome # Shows("alert", "Error")]_vars

\* A picker call was cancelled on a form that had an image and an error
\* text from earlier calls.
C26_Witness ==
    /\ pick.pc = "idle"
    /\ pick.result = "cancel"
    /\ form[Device].image
    /\ pickError # Null

(* ------------------------------------------------------------------ *)
(* No retry inside handleSubmit and handleAddComment                   *)
(* ------------------------------------------------------------------ *)

\* One device with CreateReportScreen and the detail view of report 1: the
\* user submits reports and posts comments, and the service may fail any
\* request.
NextNoRetry ==
    \/ SetImage(Device)
    \/ SubmitStart(Device)
    \/ \E s \in Slots : AuthResolve(s)
    \/ \E s \in Slots : UploadResolve(s)
    \/ \E s \in Slots : InsertResolve(s)
    \/ \E k \in DOMAIN rtasks : ReportQuery(k)
    \/ \E k \in DOMAIN rtasks : ReportApply(k)
    \/ \E d \in Drafts : TypeComment(d)
    \/ PressPost
    \/ \E a \in DOMAIN adds : AddUser(a)
    \/ \E a \in DOMAIN adds : AddInsert(a)

SpecNoRetry == InitComments /\ [][NextNoRetry]_vars

\* How often step was started in the invocation with log l.
Starts(l, step) == Cardinality({i \in DOMAIN l : l[i] = Ev(step, "start")})

\* The insert of a handleAddComment call has resolved in this step.
CommentInsertResolves ==
    \/ cdb' # cdb
    \/ lastAdd' # lastAdd /\ lastAdd' \in {"added", MsgAddFailed}

\* C27: no retry: a submit invocation starts at most one upload and at most
\* one insert, whatever failed; and when the insert of a handleAddComment
\* call resolves, with or without an error, at most one row was added and
\* the call is over, so that no call issues a second insert.
C27_NoRetry ==
    [][/\ \A s \in Slots :
            /\ Starts(inv'[s].log, "upload") <= 1
            /\ Starts(inv'[s].log, "insert") <= 1
       /\ CommentInsertResolves
            => /\ Cardinality(cdb' \ cdb) <= 1
               /\ \E a \in DOMAIN adds : adds[a].pc = "insert" /\ AddEnded(a)]_vars

\* A submit invocation has ended with a failed upload, having started one
\* upload and no insert, and a handleAddComment call has ended with a
\* failed insert.
C27_Witness ==
    /\ lastAdd = MsgAddFailed
    /\ adds = <<>>
    /\ \E s \in Slots :
          /\ inv[s].failedAt = "upload"
          /\ Starts(inv[s].log, "upload") = 1
          /\ Starts(inv[s].log, "insert") = 0

(* ------------------------------------------------------------------ *)
(* AuthProvider: signIn and signUp                                     *)
(* ------------------------------------------------------------------ *)

\* How many signIn and signUp calls are followed.
MaxAuthCalls == 2

\* What the user may enter.
Emails == {"ann@x", "bob@x"}

Passwords == {"pw1", "pw2"}

Usernames == {"ann", "bob"}

\* The user ids the identity service hands out.
AccountIds == {"u1", "u2"}

\* The texts of the errors.
MsgUnexpected == "An unexpected error occurred"

MsgNoSession == "Failed to establish session"

MsgNoProfile == "Profile not found"

MsgNameTaken == "Username is already taken"

MsgNoAccount == "Failed to create user account"

MsgNoSessionAfterSignUp == "No session available after sign up"

\* What the services say.
MsgInvalidLogin == "Invalid login credentials"

MsgNotConfirmed == "Email not confirmed"

MsgRegistered == "User already registered"

MsgDuplicateKey == "duplicate key value violates unique constraint"

\* new Error(text).
JsError(text) ==
    [isError |-> TRUE, message |-> text, description |-> "", details |-> "",
     code |-> Null]

\* An error as a service returns it: an Error instance or a plain object
\* with a message.
ServiceErrors(text) ==
    {[isError |-> b, message |-> text, description |-> "", details |-> "",
      code |-> Null] : b \in BOOLEAN}

\* a || b || c || d of texts: the first that is not empty.
FirstNonEmpty(texts) ==
    LET full == {i \in DOMAIN texts : texts[i] # ""}
    IN  texts[CHOOSE i \in full : \A j \in full : i <= j]

\* Mutant: every error that is not an Error instance gets the general text.
HandleAuthErrorGeneral(err) ==
    [isError |-> FALSE,
     message |-> IF err.isError THEN err.message ELSE MsgUnexpected,
     description |-> "", details |-> "", code |-> err.code]

\* handleAuthError: the plain object { message, code } made of an error.
HandleAuthError(err) ==
    [isError |-> FALSE,
     message |-> IF err.isError
                 THEN err.message
                 ELSE FirstNonEmpty(<<err.message, err.description, err.details,
                                  MsgUnexpected>>),
     description |-> "", details |-> "", code |-> err.code]

\* How a call ends.
ResolvedCall == [kind |-> "resolved", error |-> JsError("")]

\* What was thrown inside the try block reaches the catch block, which
\* throws handleAuthError of it.
Catch(thrown) == [kind |-> "thrown", error |-> HandleAuthError(thrown)]

\* A call to a service, as the call's log keeps it.
Did(fn, a, b) == [fn |-> fn, a |-> a, b |-> b]

\* The answers of auth.signInWithPassword: a session for the account with
\* this email and password, or an error.
SignInWithPassword(accts, e, p) ==
    LET match == {a \in accts : a.email = e /\ a.password = p}
    IN  {[uid |-> a.id, error |-> JsError("")] : a \in {m \in match : m.confirmed}}
        \cup {[uid |-> Null, error |-> err] :
                  err \in (IF match = {} THEN ServiceErrors(MsgInvalidLogin)
                           ELSE IF \E m \in match : ~m.confirmed
                                THEN ServiceErrors(MsgNotConfirmed)
                                ELSE {})
                          \cup ServiceErrors(MsgNetwork)}

\* The answer carries an error.
HasError(ans) == ans.error.message # ""

\* The id of the next account.
NewAccountId(accts) == CHOOSE i \in AccountIds : \A a \in accts : a.id # i

\* The answers of auth.signUp: a new account, confirmed at once or waiting
\* for the confirmation of its email, or an error.
SignUpService(accts, e, p) ==
    (IF \E a \in accts : a.email = e
     THEN {[account |-> [id |-> Null, email |-> e, password |-> p, confirmed |-> FALSE],
            error |-> err] : err \in ServiceErrors(MsgRegistered)}
     ELSE {[account |-> [id |-> NewAccountId(accts), email |-> e, password |-> p,
                         confirmed |-> c],
            error |-> JsError("")] : c \in BOOLEAN})
    \cup {[account |-> [id |-> Null, email |-> e, password |-> p, confirmed |-> FALSE],
           error |-> err] : err \in ServiceErrors(MsgNetwork)}

\* Mutant: the error of auth.signUp is not looked at.
SignUpRejectedNever(ans) == FALSE

\* if (signUpError).
SignUpRejected(ans) == HasError(ans)

\* getProfile: the profile of the user, none when there is none or when
\* the query failed.
GetProfile(table, uid, net) == IF net THEN {} ELSE {r \in table : r.id = uid}

\* The email of an account.
EmailOf(accts, uid) == (CHOOSE a \in accts : a.id = uid).email

\* The profiles table refuses a row whose id, username or email is there
\* already, and a row that is not the session's own.
ProfileInsertRefused(table, row, uid) ==
    \/ row.id # uid
    \/ \E r \in table : r.id = row.id \/ r.username = row.username \/ r.email = row.email

InitAuth == SubmitIdle(VCreate) /\ CommentIdle /\ OtherIdle

Running(op, pc) == call.op = op /\ call.pc = pc

\* signIn(email, password) is called.
SignInCall(e, p) ==
    /\ call.pc \in {"idle", "done"}
    /\ authCalls < MaxAuthCalls
    /\ authCalls' = authCalls + 1
    /\ call' = [NoCall EXCEPT !.op = "signIn", !.pc = "signInWithPassword",
                              !.email = e, !.password = p]
    /\ UNCHANGED <<submitVars, commentVars, shown, besideAuth, besideCall, authUser, accounts,
                   profiles, session, authEvents>>

\* signIn: auth.signInWithPassword answers.
SignInAnswer ==
    /\ Running("signIn", "signInWithPassword")
    /\ \E ans \in SignInWithPassword(accounts, call.email, call.password) :
        LET asked == [call EXCEPT !.log = Append(@, Did("signInWithPassword",
                                                        call.email, call.password))]
        IN  IF HasError(ans)
            THEN /\ call' = [asked EXCEPT !.pc = "done",
                                          !.rejected = ans.error.message,
                                          !.outcome = Catch(HandleAuthError(ans.error))]
                 /\ UNCHANGED <<session, authEvents>>
            ELSE IF ans.uid = Null
            THEN /\ call' = [asked EXCEPT !.pc = "done", !.accepted = TRUE,
                                          !.outcome = Catch(JsError(MsgNoSession))]
                 /\ UNCHANGED <<session, authEvents>>
            ELSE /\ call' = [asked EXCEPT !.pc = "getProfile", !.accepted = TRUE,
                                          !.uid = ans.uid]
                 /\ session' = ans.uid
                 /\ authEvents' = Append(authEvents, ans.uid)
    /\ UNCHANGED <<submitVars, commentVars, shown, besideAuth, besideCall, authUser, accounts,
                   profiles, authCalls>>

\* signIn: getProfile answers; with a profile the user is set.
SignInProfile ==
    /\ Running("signIn", "getProfile")
    /\ \E net \in BOOLEAN :
        LET found == GetProfile(profiles, call.uid, net)
            asked == [call EXCEPT !.log = Append(@, Did("getProfile", call.uid, Null))]
        IN  IF found = {}
            THEN /\ call' = [asked EXCEPT !.pc = "done",
                                          !.outcome = Catch(JsError(MsgNoProfile))]
                 /\ UNCHANGED authUser
            ELSE /\ call' = [asked EXCEPT !.pc = "done",
                                          !.log = Append(@, Did("setUser", call.uid, Null)),
                                          !.outcome = ResolvedCall]
                 /\ authUser' = [id |-> call.uid,
                                 email |-> EmailOf(accounts, call.uid),
                                 username |-> (CHOOSE r \in found : TRUE).username]
    /\ UNCHANGED <<submitVars, commentVars, shown, besideAuth, besideCall, accounts, profiles,
                   session, authEvents, authCalls>>

\* The user state made of a session's user and its profile, if one was found.
UserOf(accts, uid, found) ==
    [id |-> uid, email |-> EmailOf(accts, uid),
     username |-> IF found = {} THEN Null ELSE (CHOOSE r \in found : TRUE).username]

\* Mutant: setLoading is not called.
LoadingAfterCallbackKept(l) == l

\* setLoading(false) at the end of a callback of the effect.
LoadingAfterCallback(l) == FALSE

\* The listener of onAuthStateChange is called with the next change of the
\* session, the callback before it having returned: without a session it sets
\* the user to null, with one it calls getProfile.
OnAuthStateChange ==
    /\ authEvents # <<>>
    /\ listener.pc = "idle"
    /\ authEvents' = Tail(authEvents)
    /\ lastEvent' = Head(authEvents)
    /\ IF Head(authEvents) = Null
       THEN /\ authUser' = NoAuthUser
            /\ authLoading' = LoadingAfterCallback(authLoading)
            /\ UNCHANGED listener
       ELSE /\ listener' = [pc |-> "getProfile", uid |-> Head(authEvents)]
            /\ UNCHANGED <<authUser, authLoading>>
    /\ UNCHANGED <<submitVars, commentVars, shown, besideAuth, accounts, profiles,
                   session, call, authCalls, boot>>

\* The getProfile of the listener's callback answers: the user is set, with
\* the username null when no profile came back.
OnAuthStateChangeProfile ==
    /\ listener.pc = "getProfile"
    /\ \E net \in BOOLEAN :
          authUser' = UserOf(accounts, listener.uid,
                             GetProfile(profiles, listener.uid, net))
    /\ authLoading' = LoadingAfterCallback(authLoading)
    /\ listener' = NoCallback
    /\ UNCHANGED <<submitVars, commentVars, shown, besideAuth, accounts, profiles,
                   session, authEvents, call, authCalls, boot, lastEvent>>

\* signUp(email, password, username) is called.
SignUpCall(e, p, n) ==
    /\ call.pc \in {"idle", "done"}
    /\ authCalls < MaxAuthCalls
    /\ authCalls' = authCalls + 1
    /\ call' = [NoCall EXCEPT !.op = "signUp", !.pc = "check", !.email = e,
                              !.password = p, !.username = n]
    /\ UNCHANGED <<submitVars, commentVars, shown, besideAuth, besideCall, authUser, accounts,
                   profiles, session, authEvents>>

\* signUp: the query for a profile with this username answers.
SignUpCheck ==
    /\ Running("signUp", "check")
    /\ \E net \in BOOLEAN :
        LET asked == [call EXCEPT !.log = Append(@, Did("checkUsername",
                                                        call.username, Null))]
        IN  call' =
                IF net
                THEN [asked EXCEPT !.pc = "done",
                         !.outcome = Catch(HandleAuthError(
                             [JsError(MsgNetwork) EXCEPT !.isError = FALSE]))]
                ELSE IF \E r \in profiles : r.username = call.username
                THEN [asked EXCEPT !.pc = "done",
                                   !.outcome = Catch(JsError(MsgNameTaken))]
                ELSE [asked EXCEPT !.pc = "signUp"]
    /\ UNCHANGED <<submitVars, commentVars, shown, besideAuth, besideCall, authUser, accounts,
                   profiles, session, authEvents, authCalls>>

\* signUp: auth.signUp answers.
SignUpAnswer ==
    /\ Running("signUp", "signUp")
    /\ \E ans \in SignUpService(accounts, call.email, call.password) :
        LET asked == [call EXCEPT !.log = Append(@, Did("signUp", call.email,
                                                        call.password)),
                                  !.rejected = IF HasError(ans) THEN ans.error.message
                                               ELSE Null]
        IN  IF SignUpRejected(ans)
            THEN /\ call' = [asked EXCEPT !.pc = "done",
                                          !.outcome = Catch(HandleAuthError(ans.error))]
                 /\ UNCHANGED <<accounts, session, authEvents>>
            ELSE IF ans.account.id = Null
            THEN /\ call' = [asked EXCEPT !.pc = "done",
                                          !.outcome = Catch(JsError(MsgNoAccount))]
                 /\ UNCHANGED <<accounts, session, authEvents>>
            ELSE /\ call' = [asked EXCEPT !.pc = "signIn", !.accepted = TRUE,
                                          !.uid = ans.account.id]
                 /\ accounts' = accounts \cup {ans.account}
                 /\ IF ans.account.confirmed
                    THEN /\ session' = ans.account.id
                         /\ authEvents' = Append(authEvents, ans.account.id)
                    ELSE UNCHANGED <<session, authEvents>>
    /\ UNCHANGED <<submitVars, commentVars, shown, besideAuth, besideCall, authUser, profiles,
                   authCalls>>

\* signUp: the explicit auth.signInWithPassword answers.
SignUpSignIn ==
    /\ Running("signUp", "signIn")
    /\ \E ans \in SignInWithPassword(accounts, call.email, call.password) :
        LET asked == [call EXCEPT !.log = Append(@, Did("signInWithPassword",
                                                        call.email, call.password))]
        IN  IF HasError(ans)
            THEN /\ call' = [asked EXCEPT !.pc = "done",
                                          !.outcome = Catch(HandleAuthError(ans.error))]
                 /\ UNCHANGED <<session, authEvents>>
            ELSE /\ call' = [asked EXCEPT !.pc = "insert"]
                 /\ session' = ans.uid
                 /\ authEvents' = Append(authEvents, ans.uid)
    /\ UNCHANGED <<submitVars, commentVars, shown, besideAuth, besideCall, authUser, accounts,
                   profiles, authCalls>>

\* signUp: auth.getSession and the insert of the profile answer; after a
\* failed insert the session is signed out.
SignUpInsert ==
    /\ Running("signUp", "insert")
    /\ LET asked == [call EXCEPT !.log = Append(@, Did("getSession", Null, Null))]
       IN  IF session = Null
           THEN /\ call' = [asked EXCEPT !.pc = "done",
                                !.outcome = Catch(JsError(MsgNoSessionAfterSignUp))]
                /\ UNCHANGED <<profiles, session, authEvents>>
           ELSE \E net \in BOOLEAN :
                LET row == [id |-> session, username |-> call.username,
                            email |-> call.email]
                    tried == [asked EXCEPT !.log = Append(@, Did("insertProfile",
                                                                 row.id, row.username))]
                IN  IF net \/ ProfileInsertRefused(profiles, row, session)
                    THEN /\ call' = [tried EXCEPT !.pc = "done",
                                        !.log = Append(@, Did("signOut", Null, Null)),
                                        !.outcome = Catch(HandleAuthError(
                                            [JsError(IF net THEN MsgNetwork
                                                     ELSE MsgDuplicateKey)
                                             EXCEPT !.isError = FALSE]))]
                         /\ session' = Null
                         /\ authEvents' = Append(authEvents, Null)
                         /\ UNCHANGED profiles
                    ELSE /\ call' = [tried EXCEPT !.pc = "done", !.outcome = ResolvedCall]
                         /\ profiles' = profiles \cup {row}
                         /\ UNCHANGED <<session, authEvents>>
    /\ UNCHANGED <<submitVars, commentVars, shown, besideAuth, besideCall, authUser, accounts,
                   authCalls>>

NextAuth ==
    \/ \E e \in Emails, p \in Passwords : SignInCall(e, p)
    \/ SignInAnswer
    \/ SignInProfile
    \/ OnAuthStateChange
    \/ OnAuthStateChangeProfile
    \/ \E e \in Emails, p \in Passwords, n \in Usernames : SignUpCall(e, p, n)
    \/ SignUpCheck
    \/ SignUpAnswer
    \/ SignUpSignIn
    \/ SignUpInsert

SpecAuth == InitAuth /\ [][NextAuth]_vars

\* The calls of fn in the log l.
Calls(l, fn) == {i \in DOMAIN l : l[i].fn = fn}

\* A call of op ends in this step.
CallEnds(op) == call.pc # "done" /\ call'.pc = "done" /\ call'.op = op

\* C28: a signIn call whose signInWithPassword returned no error resolves,
\* having called signInWithPassword once, with the email and the password it
\* was given.
C28_AcceptedSignInResolves ==
    (call.op = "signIn" /\ call.pc = "done" /\ call.accepted) =>
        /\ call.outcome.kind = "resolved"
        /\ Cardinality(Calls(call.log, "signInWithPassword")) = 1
        /\ \A i \in Calls(call.log, "signInWithPassword") :
              call.log[i] = Did("signInWithPassword", call.email, call.password)

\* C29: a signIn call whose signInWithPassword returned an error ends by
\* throwing an error with the message of the service; it has not fetched a
\* profile and has not set the user.
C29_RejectedSignInFails ==
    [][(CallEnds("signIn") /\ call'.rejected # Null) =>
          /\ call'.outcome.kind = "thrown"
          /\ call'.outcome.error.message = call'.rejected
          /\ Calls(call'.log, "getProfile") = {}
          /\ Calls(call'.log, "setUser") = {}
          /\ authUser' = authUser]_vars

\* A signIn call with a wrong password has ended while a user was set.
C29_Witness ==
    /\ call.op = "signIn"
    /\ call.pc = "done"
    /\ call.rejected = MsgInvalidLogin
    /\ call.outcome.kind = "thrown"
    /\ authUser # NoAuthUser

\* C30: a signUp call whose auth.signUp returned an error ends by throwing
\* an error with the message of the service; it has inserted no profile and
\* has not called signInWithPassword.
C30_RejectedSignUpFails ==
    [][(CallEnds("signUp") /\ call'.rejected # Null) =>
          /\ call'.outcome.kind = "thrown"
          /\ call'.outcome.error.message = call'.rejected
          /\ Calls(call'.log, "insertProfile") = {}
          /\ Calls(call'.log, "signInWithPassword") = {}
          /\ profiles' = profiles
          /\ session' = session]_vars

\* A signUp call for an email that has an account has ended.
C30_Witness ==
    /\ call.op = "signUp"
    /\ call.pc = "done"
    /\ call.rejected = MsgRegistered
    /\ call.outcome.kind = "thrown"
    /\ Calls(call.log, "signUp") # {}

(* ------------------------------------------------------------------ *)
(* AuthProvider: the effect, the listener and signOut                  *)
(* ------------------------------------------------------------------ *)

\* AuthProvider as it is mounted: loading, no user, the session check of its
\* effect under way, the listener registered.
AuthMounted ==
    /\ authLoading = TRUE
    /\ boot = [NoCallback EXCEPT !.pc = "getSession"]
    /\ listener = NoCallback
    /\ lastEvent = "none"
    /\ authUser = NoAuthUser
    /\ accounts = SampleAccounts
    /\ profiles = SampleProfiles
    /\ authEvents = <<>>
    /\ call = NoCall
    /\ authCalls = 0

\* The application starts, with or without a session kept from an earlier run.
InitSession ==
    /\ SubmitIdle(VCreate)
    /\ CommentIdle
    /\ FeedIdle
    /\ PickIdle("android")
    /\ AuthMounted
    /\ session \in {Null, "u1"}

\* The effect's getSession answers: with an error or without a session
\* loading ends, with a session getProfile is called.
BootSession ==
    /\ boot.pc = "getSession"
    /\ \E err \in BOOLEAN :
        IF err \/ session = Null
        THEN /\ boot' = [NoCallback EXCEPT !.pc = "done"]
             /\ authLoading' = LoadingAfterCallback(authLoading)
        ELSE /\ boot' = [pc |-> "getProfile", uid |-> session]
             /\ UNCHANGED authLoading
    /\ UNCHANGED <<submitVars, commentVars, shown, besideAuth, authUser, accounts,
                   profiles, session, authEvents, call, authCalls, listener, lastEvent>>

\* The getProfile of the effect's session check answers: the user is set and
\* loading ends.
BootProfile ==
    /\ boot.pc = "getProfile"
    /\ \E net \in BOOLEAN :
          authUser' = UserOf(accounts, boot.uid, GetProfile(profiles, boot.uid, net))
    /\ authLoading' = LoadingAfterCallback(authLoading)
    /\ boot' = [boot EXCEPT !.pc = "done"]
    /\ UNCHANGED <<submitVars, commentVars, shown, besideAuth, accounts, profiles,
                   session, authEvents, call, authCalls, listener, lastEvent>>

\* signOut, from the profile screen, which is shown while there is a user:
\* the session ends and the listener is told, or the service fails and the
\* error is thrown.
SignOutCall ==
    /\ authUser # NoAuthUser
    /\ session # Null
    /\ authCalls < MaxAuthCalls
    /\ authCalls' = authCalls + 1
    /\ \E net \in BOOLEAN :
        IF net
        THEN UNCHANGED <<session, authEvents>>
        ELSE /\ session' = Null
             /\ authEvents' = Append(authEvents, Null)
    /\ UNCHANGED <<submitVars, commentVars, shown, besideAuth, besideCall, authUser,
                   accounts, profiles, call>>

NextSession ==
    \/ BootSession
    \/ BootProfile
    \/ OnAuthStateChange
    \/ OnAuthStateChangeProfile
    \/ \E e \in Emails, p \in Passwords : SignInCall(e, p)
    \/ SignInAnswer
    \/ SignInProfile
    \/ SignOutCall

SpecSession == InitSession /\ [][NextSession]_vars

\* Promises settle: the services answer, and the listener is called for every
\* change of the session.
FairSession ==
    /\ WF_vars(BootSession)
    /\ WF_vars(BootProfile)
    /\ WF_vars(OnAuthStateChange)
    /\ WF_vars(OnAuthStateChangeProfile)
    /\ WF_vars(SignInAnswer)
    /\ WF_vars(SignInProfile)

SpecSessionFair == SpecSession /\ FairSession

\* C31: the provider starts with no user and loading true; loading never
\* goes from false to true; and in every behaviour it is false in the end.
C31_LoadingEndsOnce ==
    /\ authUser = NoAuthUser /\ authLoading = TRUE
    /\ [][authLoading' = TRUE => authLoading = TRUE]_vars
    /\ <>[](authLoading = FALSE)

\* The session check has found a session and its profile, and loading is over.
C31_Witness ==
    /\ ~authLoading
    /\ boot.pc = "done"
    /\ boot.uid # Null
    /\ authUser.id = boot.uid

\* Nothing of the provider is under way: the session check is over, the
\* listener has been called for every change and its callback has returned,
\* and no signIn or signUp call is running.
Quiet ==
    /\ boot.pc = "done"
    /\ listener.pc = "idle"
    /\ authEvents = <<>>
    /\ call.pc \in {"idle", "done"}

\* C32: when nothing is under way any more, the user is the one of the last
\* change of the session the listener was called with: null after a
\* sign-out, whatever callbacks were waiting for getProfile at that time.
C32_UserReflectsLastEvent ==
    (Quiet /\ lastEvent # "none") => authUser.id = lastEvent

\* C33: after a signIn call that failed, the first call since the provider
\* was mounted without setting a user, no user is set once nothing is under
\* way any more.
C33_FailedSignInSetsNoUser ==
    (/\ Quiet
     /\ boot.uid = Null
     /\ authCalls = 1
     /\ call.op = "signIn"
     /\ call.outcome.kind = "thrown") => authUser = NoAuthUser

(* ------------------------------------------------------------------ *)
(* CreateReportScreen: focus events while a submit is in flight        *)
(* ------------------------------------------------------------------ *)

\* The focus listener of CreateReportScreen: the form is reset, the error and
\* the success notice are cleared, loading is set to false.
FocusForm(v) ==
    /\ shown[v]
    /\ variant = VCreate
    /\ form' = [form EXCEPT ![v] = InitialForm(VCreate)]
    /\ loading' = SetLoading(v, FALSE)
    /\ pickError' = Null
    /\ UNCHANGED <<identity, started, now, variant, storage, reports, inv,
                   commentVars, shown, feedVars, authVars, platform, camPerm, pick>>

\* CreateReportScreen on one device: images are captured, the screen loses
\* and regains the focus, reports are submitted.
NextFocus ==
    \/ SetImage(Device)
    \/ SetLocation(Device)
    \/ FocusForm(Device)
    \/ SubmitStart(Device)
    \/ \E s \in Slots : AuthResolve(s)
    \/ \E s \in Slots : UploadResolve(s)
    \/ \E s \in Slots : InsertResolve(s)

SpecFocus == InitUnmount /\ [][NextFocus]_vars

\* The handleSubmit calls of view v that are in flight.
SubmitsInFlight(v) == {l \in Lanes : InFlight(inv[<<v, l>>])}

\* C34: at most one handleSubmit call of the screen is in flight at any
\* time.
C34_OneSubmitInFlight == Cardinality(SubmitsInFlight(Device)) <= 1

(* ------------------------------------------------------------------ *)
(* handleSubmit and handleAddComment come to their end                 *)
(* ------------------------------------------------------------------ *)

\* One device with CreateReportScreen and the detail view of report 1, on
\* which the user may sign out: reports are submitted and comments posted,
\* and the service may fail any request.
NextEnds ==
    \/ NextNoRetry
    \/ \E v \in SessionChanges : SignOut(v)

\* Promises settle: every request is answered.
FairEnds ==
    /\ WF_vars(\E s \in Slots : AuthResolve(s))
    /\ WF_vars(\E s \in Slots : UploadResolve(s))
    /\ WF_vars(\E s \in Slots : InsertResolve(s))
    /\ WF_vars(\E a \in DOMAIN adds : AddUser(a))
    /\ WF_vars(\E a \in DOMAIN adds : AddInsert(a))

SpecEnds == InitComments /\ [][NextEnds]_vars /\ FairEnds

\* A handleSubmit or handleAddComment call is running, or a view is loading.
Busy ==
    \/ \E s \in Slots : InFlight(inv[s])
    \/ adds # <<>>
    \/ loading[Device] = TRUE
    \/ posting = TRUE

StoredOf(l) == {c \in cdb : \E i \in DOMAIN l : l[i].id = c.id}

\* C36: while the detail view is shown, every comment of its local list is
\* a comment on the report the view shows.
C36_ListOfViewedReport ==
    mounted => \A c \in StoredOf(comments) : c.report_id = viewId

\* A handleAddComment call ends in this step without having inserted: it
\* found no user, or its insert failed.
AddFails ==
    /\ Len(adds') < Len(adds)
    /\ lastAdd' \in {MsgSignIn, MsgAddFailed}
    /\ cdb' = cdb

\* A handleAddComment call ends in this step with its insert done.
AddSucceeds == Len(adds') < Len(adds) /\ cdb' # cdb

\* A handleAddComment call takes a step.
AddSteps == adds' # adds /\ Len(adds') <= Len(adds)

\* C37: a handleAddComment call that ends without a user or with a failed
\* insert leaves the local list and the draft as they are and starts no
\* fetchComments; a step of a call clears the draft or starts a
\* fetchComments only when its insert has succeeded, and a successful
\* insert starts one and, in the view that is still shown, clears the draft.
C37_FailedPostLeavesAll ==
    [][/\ AddFails => /\ comments' = comments
                      /\ newComment' = newComment
                      /\ tasks' = tasks
       /\ (AddSteps /\ (newComment' # newComment \/ tasks' # tasks)) => AddSucceeds
       /\ AddSucceeds => /\ Len(tasks') = Len(tasks) + 1
                         /\ tasks'[Len(tasks')].origin = "add"
                         /\ mounted => newComment' = <<>>]_vars

\* A post has failed at its insert while the view shows comments: the draft
\* is still there.
C37_Witness ==
    /\ lastAdd = MsgAddFailed
    /\ adds = <<>>
    /\ mounted
    /\ newComment # <<>>
    /\ comments # <<>>

\* The detail view with what acts on it while it is shown: fetchReport,
\* fetchComments, handleAddComment with one text, the change feed and the
\* change of the id shown from report 1 to report 2.
NextDetail ==
    \/ \E k \in DOMAIN rtasks : ReportQuery(k)
    \/ \E k \in DOMAIN rtasks : ReportApply(k)
    \/ \E k \in DOMAIN tasks : FetchQuery(k)
    \/ \E k \in DOMAIN tasks : FetchApply(k)
    \/ TypeComment(EditedText)
    \/ PressPost
    \/ \E a \in DOMAIN adds : AddUser(a)
    \/ \E a \in DOMAIN adds : AddInsert(a)
    \/ ChangeId(2)
    \/ \E j \in DOMAIN subs : SubJoined(j)
    \/ \E j \in DOMAIN subs : Deliver(j)

SpecDetail == InitComments /\ [][NextDetail]_vars

\* C38: as long as the detail view lives, an error once set stays set: no
\* step of fetchReport, fetchComments or handleAddComment, no change event
\* and no change of the id clears it, and the view shows the error instead
\* of the report and the input.
C38_ErrorAbsorbing ==
    [][/\ (error # Null /\ inst' = inst) => error' # Null
       /\ error' # Null => ~InputShown']_vars

\* The error was set by a failed post; afterwards the id changed and the
\* report of the new id was loaded, and the error is still there.
C38_Witness ==
    /\ mounted
    /\ error = MsgAddFailed
    /\ viewId = 2
    /\ report # NoReport
    /\ report.id = 2

====
